---------------------------- MODULE Spec2Model ----------------------------
(***************************************************************************)
(* The slot-filling dialogue of the Homi marketplace front-end             *)
(* (src/src/components/RequestFlow.tsx): the RequestFlow component's state,*)
(* its event handlers and the asynchronous steps of handleSubmit, with the *)
(* field extractors computed on the characters of the utterances.          *)
(*                                                                         *)
(* Texts are TLA+ strings.  An optional JavaScript value (T | null |       *)
(* undefined) is a sequence of length 0 or 1; a JavaScript object with     *)
(* optional properties is a function whose DOMAIN holds the properties     *)
(* that are present (a property holding undefined is an absent one).       *)
(***************************************************************************)
EXTENDS Integers, Sequences, FiniteSets, TLC

(***************************************************************************)
(* Strings: String.prototype.toLowerCase, includes, trim and the subset of *)
(* regular expressions the extractors use.                                 *)
(***************************************************************************)
UpperLetters == "ABCDEFGHIJKLMNOPQRSTUVWXYZ"

LowerLetters == "abcdefghijklmnopqrstuvwxyz"

Digits == "0123456789"

CharAt(s, i) == SubSeq(s, i, i)

CharsOf(s) == { CharAt(s, i) : i \in 1..Len(s) }

Upper == CharsOf(UpperLetters)

Lower == CharsOf(LowerLetters)

Digit == CharsOf(Digits)

WhiteSpace == {" "}

LowerChar(c) ==
    IF c \in Upper
    THEN CharAt(LowerLetters, CHOOSE i \in 1..Len(UpperLetters) : CharAt(UpperLetters, i) = c)
    ELSE c

RECURSIVE toLowerCase(_)
toLowerCase(s) ==
    IF s = "" THEN "" ELSE LowerChar(CharAt(s, 1)) \o toLowerCase(SubSeq(s, 2, Len(s)))

includes(text, kw) ==
    \E i \in 1..(Len(text) - Len(kw) + 1) : SubSeq(text, i, i + Len(kw) - 1) = kw

\* text.trim() is the empty string (falsy)
IsBlank(text) == \A i \in 1..Len(text) : CharAt(text, i) \in WhiteSpace

(***************************************************************************)
(* A regular expression without alternation is a sequence of atoms, each a *)
(* character class with a repetition range; quantifiers are greedy and the *)
(* matcher backtracks in the order of a JavaScript engine: the longest run *)
(* of an atom first.  MatchAtoms gives the position after the match that   *)
(* is found first, or 0 when there is none.                                *)
(***************************************************************************)
\* max is <<>> for an unbounded repetition and <<n>> for at most n
Atom(cls, lo, hi) == [cls |-> cls, min |-> lo, max |-> hi]

Lit(c) == Atom({c}, 1, <<1>>)

Opt(cls) == Atom(cls, 0, <<1>>)

Star(cls) == Atom(cls, 0, <<>>)

Plus(cls) == Atom(cls, 1, <<>>)

Times(cls, n) == Atom(cls, n, <<n>>)

\* the number of characters of cls that follow one another from pos on, at most hi
RECURSIVE RunLength(_, _, _, _)
RunLength(cls, pos, text, hi) ==
    IF hi = <<0>> \/ pos > Len(text) \/ CharAt(text, pos) \notin cls
    THEN 0
    ELSE 1 + RunLength(cls, pos + 1, text, IF hi = <<>> THEN hi ELSE <<hi[1] - 1>>)

\* atom k repeated n times, then fewer, each time followed by the atoms after it
RECURSIVE MatchFrom(_, _, _, _, _)
MatchFrom(atoms, k, pos, text, n) ==
    IF n < atoms[k].min
    THEN 0
    ELSE LET next == pos + n
             r == IF k = Len(atoms)
                  THEN next
                  ELSE MatchFrom(atoms, k + 1, next, text,
                                 RunLength(atoms[k + 1].cls, next, text, atoms[k + 1].max))
         IN  IF r # 0 THEN r ELSE MatchFrom(atoms, k, pos, text, n - 1)

MatchAtoms(atoms, k, pos, text) ==
    IF k > Len(atoms)
    THEN pos
    ELSE MatchFrom(atoms, k, pos, text, RunLength(atoms[k].cls, pos, text, atoms[k].max))

\* the least element of a set of positions, 0 when it is empty
LeastOrZero(S) == IF S = {} THEN 0 ELSE CHOOSE i \in S : \A j \in S : i <= j

\* the leftmost position at which the atoms match, 0 when they match nowhere
FirstMatchStart(atoms, text) ==
    LeastOrZero({ i \in 1..Len(text) : MatchAtoms(atoms, 1, i, text) # 0 })

\* the result of a match from s up to e: <<match[0], match[1]>>, the group being
\* the atoms from the cap-th on (those before it are single characters)
MatchResult(s, e, cap, text) ==
    << <<SubSeq(text, s, e - 1), SubSeq(text, s + cap - 1, e - 1)>> >>

MatchAt(s, atoms, cap, text) ==
    IF s = 0 THEN <<>> ELSE MatchResult(s, MatchAtoms(atoms, 1, s, text), cap, text)

\* text.match(re) for a pattern without the g flag: <<>> for null
RegexMatch(atoms, cap, text) == MatchAt(FirstMatchStart(atoms, text), atoms, cap, text)

(***************************************************************************)
(* JavaScript values.                                                     *)
(***************************************************************************)
\* obj.k is truthy: the property is present and is not the empty string
Truthy(obj, k) == k \in DOMAIN obj /\ obj[k] # ""

\* { ...obj, k: v }
With(obj, k, v) == [ x \in (DOMAIN obj) \cup {k} |-> IF x = k THEN v ELSE obj[x] ]

\* an optional string is truthy: neither null nor undefined nor ''
Present(a) == a # <<>> /\ a[1] # ""

\* a || b on optional strings
OrElse(a, b) == IF Present(a) THEN a ELSE b

\* data.additionalInfo?.specific is truthy
HasSpecific(data) ==
    "additionalInfo" \in DOMAIN data /\ Truthy(data["additionalInfo"], "specific")

(***************************************************************************)
(* The tables and pure functions of RequestFlow.                           *)
(***************************************************************************)
quickStarters ==
    << "I need help with trash removal", "Looking for a photographer",
       "Need apartment cleaning", "WiFi setup help", "Moving assistance",
       "Graphic design work" >>

welcomeMessage ==
    [ type |-> "ai",
      content |-> "Hi! I'm your AI assistant. Tell me what you need help with, and I'll find you the perfect local provider. What can I help you with today?",
      suggestions |-> quickStarters,
      data |-> <<>> ]

thinkingMessage ==
    [ type |-> "system", content |-> "thinking", suggestions |-> <<>>, data |-> <<>> ]

UserMessage(text) ==
    [ type |-> "user", content |-> text, suggestions |-> <<>>, data |-> <<>> ]

errorMessage ==
    [ type |-> "ai",
      content |-> "I'm sorry, I encountered an error. Could you please try again?",
      suggestions |-> <<>>,
      data |-> <<>> ]

\* getTaskSpecificQuestion with a question of its own for the other task types
getTaskSpecificQuestion_WithFallback(taskType) ==
    CASE taskType = <<"Trash Removal">>   -> <<"What type of items need removal?">>
      [] taskType = <<"Photography">>     -> <<"What type of photography session?">>
      [] taskType = <<"Cleaning">>        -> <<"What type of cleaning do you need?">>
      [] taskType = <<"Tech Support">>    -> <<"What specific tech help do you need?">>
      [] taskType = <<"Moving Services">> -> <<"What size move is this?">>
      [] taskType = <<"Graphic Design">>  -> <<"What type of design work?">>
      [] OTHER -> <<"Anything else I should know?">>

\* getTaskSpecificQuestion without the entry of Photography
getTaskSpecificQuestion_NoPhotography(taskType) ==
    CASE taskType = <<"Trash Removal">>   -> <<"What type of items need removal?">>
      [] taskType = <<"Cleaning">>        -> <<"What type of cleaning do you need?">>
      [] taskType = <<"Tech Support">>    -> <<"What specific tech help do you need?">>
      [] taskType = <<"Moving Services">> -> <<"What size move is this?">>
      [] taskType = <<"Graphic Design">>  -> <<"What type of design work?">>
      [] OTHER -> <<>>

\* getTaskSpecificQuestion: <<>> is null
getTaskSpecificQuestion(taskType) ==
    CASE taskType = <<"Trash Removal">>   -> <<"What type of items need removal?">>
      [] taskType = <<"Photography">>     -> <<"What type of photography session?">>
      [] taskType = <<"Cleaning">>        -> <<"What type of cleaning do you need?">>
      [] taskType = <<"Tech Support">>    -> <<"What specific tech help do you need?">>
      [] taskType = <<"Moving Services">> -> <<"What size move is this?">>
      [] taskType = <<"Graphic Design">>  -> <<"What type of design work?">>
      [] OTHER -> <<>>

getTaskSpecificSuggestions(taskType) ==
    CASE taskType = <<"Trash Removal">> ->
           <<"Household trash", "Old furniture", "Yard waste", "Construction debris">>
      [] taskType = <<"Photography">> ->
           <<"Portrait session", "Event photography", "Product photos", "Headshots">>
      [] taskType = <<"Cleaning">> ->
           <<"Deep cleaning", "Regular maintenance", "Move-out cleaning", "Post-party cleanup">>
      [] taskType = <<"Tech Support">> ->
           <<"WiFi setup", "Computer repair", "Smart home setup", "Software help">>
      [] taskType = <<"Moving Services">> ->
           <<"Studio apartment", "2-bedroom house", "Just a few items", "Full house">>
      [] taskType = <<"Graphic Design">> ->
           <<"Logo design", "Business cards", "Website graphics", "Social media posts">>
      [] OTHER -> <<>>

\* data.taskType as an optional string
TaskTypeOf(data) == IF "taskType" \in DOMAIN data THEN <<data["taskType"]>> ELSE <<>>

\* getMissingInfo without the check of the timeline (lines 277-279 left out)
getMissingInfo_SkipsTimeline(data) ==
    (IF ~Truthy(data, "location") THEN <<"location">> ELSE <<>>)
    \o (IF ~Truthy(data, "budget") THEN <<"budget">> ELSE <<>>)
    \o (IF Truthy(data, "taskType") /\ ~HasSpecific(data)
           /\ getTaskSpecificQuestion(TaskTypeOf(data)) # <<>>
        THEN <<"specific">> ELSE <<>>)

\* getMissingInfo with the checks of location and budget in the other order
getMissingInfo_BudgetFirst(data) ==
    (IF ~Truthy(data, "budget") THEN <<"budget">> ELSE <<>>)
    \o (IF ~Truthy(data, "location") THEN <<"location">> ELSE <<>>)
    \o (IF ~Truthy(data, "timeline") THEN <<"timeline">> ELSE <<>>)
    \o (IF Truthy(data, "taskType") /\ ~HasSpecific(data)
           /\ getTaskSpecificQuestion(TaskTypeOf(data)) # <<>>
        THEN <<"specific">> ELSE <<>>)

getMissingInfo(data) ==
    (IF ~Truthy(data, "location") THEN <<"location">> ELSE <<>>)
    \o (IF ~Truthy(data, "budget") THEN <<"budget">> ELSE <<>>)
    \o (IF ~Truthy(data, "timeline") THEN <<"timeline">> ELSE <<>>)
    \o (IF Truthy(data, "taskType") /\ ~HasSpecific(data)
           /\ getTaskSpecificQuestion(TaskTypeOf(data)) # <<>>
        THEN <<"specific">> ELSE <<>>)

getNextQuestion(questionType, taskType) ==
    CASE questionType = "location" -> "Where are you located?"
      [] questionType = "budget"   -> "What's your budget for this?"
      [] questionType = "timeline" -> "When do you need this done?"
      [] questionType = "specific" -> OrElse(getTaskSpecificQuestion(taskType), <<"">>)[1]
      [] OTHER -> ""

getQuestionSuggestions(questionType, taskType) ==
    CASE questionType = "location" ->
           <<"Brooklyn, NY", "Downtown Seattle", "Austin, TX", "My home address">>
      [] questionType = "budget" ->
           <<"$50-100", "Around $75", "Under $200", "Flexible budget">>
      [] questionType = "timeline" ->
           <<"Today", "This weekend", "Next week", "Flexible timing">>
      [] questionType = "specific" -> getTaskSpecificSuggestions(taskType)
      [] OTHER -> <<>>

\* the rules of extractTaskType with Moving Services tested before Graphic Design
TaskTypeRules_MovingBeforeDesign(lowerText) ==
    CASE includes(lowerText, "trash") \/ includes(lowerText, "garbage") -> "Trash Removal"
      [] includes(lowerText, "photo") \/ includes(lowerText, "photographer") -> "Photography"
      [] includes(lowerText, "clean") \/ includes(lowerText, "cleaning") -> "Cleaning"
      [] includes(lowerText, "wifi") \/ includes(lowerText, "internet")
           \/ includes(lowerText, "tech") -> "Tech Support"
      [] includes(lowerText, "move") \/ includes(lowerText, "moving") -> "Moving Services"
      [] includes(lowerText, "design") \/ includes(lowerText, "logo")
           \/ includes(lowerText, "graphic") -> "Graphic Design"
      [] includes(lowerText, "repair") \/ includes(lowerText, "fix") -> "Repair Services"
      [] OTHER -> "General Service"

TaskTypeRules(lowerText) ==
    CASE includes(lowerText, "trash") \/ includes(lowerText, "garbage") -> "Trash Removal"
      [] includes(lowerText, "photo") \/ includes(lowerText, "photographer") -> "Photography"
      [] includes(lowerText, "clean") \/ includes(lowerText, "cleaning") -> "Cleaning"
      [] includes(lowerText, "wifi") \/ includes(lowerText, "internet")
           \/ includes(lowerText, "tech") -> "Tech Support"
      [] includes(lowerText, "design") \/ includes(lowerText, "logo")
           \/ includes(lowerText, "graphic") -> "Graphic Design"
      [] includes(lowerText, "move") \/ includes(lowerText, "moving") -> "Moving Services"
      [] includes(lowerText, "repair") \/ includes(lowerText, "fix") -> "Repair Services"
      [] OTHER -> "General Service"

extractTaskType(text) == TaskTypeRules(toLowerCase(text))

\* [A-Z][a-z]+ ?[A-Z]*[a-z]*
PlaceName == << Times(Upper, 1), Plus(Lower), Opt({" "}), Star(Upper), Star(Lower) >>

\* ,? ?[A-Z]{2}
StateCode == << Opt({","}), Opt({" "}), Times(Upper, 2) >>

\* each pattern with the index of the atom its capture group starts at
locationPatterns ==
    << [ atoms |-> <<Lit("i"), Lit("n"), Lit(" ")>> \o PlaceName \o StateCode, cap |-> 4 ],
       [ atoms |-> <<Lit("a"), Lit("t"), Lit(" ")>> \o PlaceName, cap |-> 4 ],
       [ atoms |-> PlaceName \o StateCode, cap |-> 1 ] >>

\* the first match of a sequence of match results that is not null
RECURSIVE FirstMatch(_)
FirstMatch(results) ==
    IF results = <<>> THEN <<>>
    ELSE IF results[1] # <<>> THEN results[1]
    ELSE FirstMatch(Tail(results))

\* match[1] of a match result
Group1(match) == IF match = <<>> THEN <<>> ELSE <<match[1][2]>>

\* extractLocation: match[1] of the first pattern that matches, <<>> for null
extractLocation(text) ==
    Group1(FirstMatch([ k \in 1..3 |->
                          RegexMatch(locationPatterns[k].atoms, locationPatterns[k].cap, text) ]))

\* \$(\d+) and \$(\d+)-\$?(\d+): the two ways /\$(\d+)(?:-\$?(\d+))?/ matches
BudgetAmount == << Lit("$"), Plus(Digit) >>

BudgetRange == BudgetAmount \o << Lit("-"), Opt({"$"}), Plus(Digit) >>

\* \d+ is greedy and the optional group is tried after all the digits: the match
\* from s on is the range when one follows the amount, else the amount
BudgetMatch(s, range, amount, text) ==
    SubSeq(text, s, (IF range # 0 THEN range ELSE amount) - 1)

BudgetAt(s, text) ==
    IF s = 0
    THEN <<>>
    ELSE <<BudgetMatch(s, MatchAtoms(BudgetRange, 1, s, text),
                       MatchAtoms(BudgetAmount, 1, s, text), text)>>

\* extractBudget: the first match of the global pattern, <<>> for null
extractBudget(text) == BudgetAt(FirstMatchStart(BudgetAmount, text), text)

\* the rules of extractTimeline with a default in place of null
TimelineRules_WithDefault(lowerText) ==
    CASE includes(lowerText, "today") \/ includes(lowerText, "asap") -> <<"Today">>
      [] includes(lowerText, "tomorrow") -> <<"Tomorrow">>
      [] includes(lowerText, "this week") -> <<"This week">>
      [] includes(lowerText, "next week") -> <<"Next week">>
      [] includes(lowerText, "weekend") -> <<"This weekend">>
      [] OTHER -> <<"Flexible timing">>

TimelineRules(lowerText) ==
    CASE includes(lowerText, "today") \/ includes(lowerText, "asap") -> <<"Today">>
      [] includes(lowerText, "tomorrow") -> <<"Tomorrow">>
      [] includes(lowerText, "this week") -> <<"This week">>
      [] includes(lowerText, "next week") -> <<"Next week">>
      [] includes(lowerText, "weekend") -> <<"This weekend">>
      [] OTHER -> <<>>

extractTimeline(text) == TimelineRules(toLowerCase(text))

\* parts.join('\n')
RECURSIVE Join(_, _)
Join(parts, sep) ==
    IF parts = <<>> THEN ""
    ELSE IF Len(parts) = 1 THEN parts[1]
    ELSE parts[1] \o sep \o Join(Tail(parts), sep)

generateSummary(data) ==
    Join((IF Truthy(data, "taskType") THEN <<"Service: " \o data["taskType"]>> ELSE <<>>)
         \o (IF Truthy(data, "location") THEN <<"Location: " \o data["location"]>> ELSE <<>>)
         \o (IF Truthy(data, "budget") THEN <<"Budget: " \o data["budget"]>> ELSE <<>>)
         \o (IF Truthy(data, "timeline") THEN <<"Timeline: " \o data["timeline"]>> ELSE <<>>)
         \o (IF HasSpecific(data)
             THEN <<"Details: " \o data["additionalInfo"]["specific"]>> ELSE <<>>),
         "\n")

(***************************************************************************)
(* processUserInput, called by the handleSubmit that was created in the    *)
(* render with message list `messages` (only its length is read) and slot  *)
(* set currentData.  The result carries, besides the fields of the source, *)
(* the branch taken, the field the answer was stored under and the field   *)
(* whose question the message asks.                                        *)
(***************************************************************************)
\* lines 194-200: the slots whose extractor found a value
SlotsFound(extracted) == { k \in DOMAIN extracted : Present(extracted[k]) }

\* lines 190-200: the slots after the first utterance
FirstTurnSlots(userInput, currentData, taskType, extracted) ==
    [ k \in (DOMAIN currentData) \cup {"taskType", "details"} \cup SlotsFound(extracted) |->
        CASE k = "taskType" -> taskType
          [] k = "details" -> userInput
          [] k \in SlotsFound(extracted) -> extracted[k][1]
          [] OTHER -> currentData[k] ]

FirstTurnData(userInput, currentData) ==
    FirstTurnSlots(userInput, currentData, extractTaskType(userInput),
                   [ location |-> extractLocation(userInput),
                     budget |-> extractBudget(userInput),
                     timeline |-> extractTimeline(userInput) ])

\* StoreAnswer that also runs the location extractor on every later answer
StoreAnswer_Reextracts(currentQuestion, userInput, updatedData) ==
    CASE Present(extractLocation(userInput)) ->
           With(updatedData, "location", extractLocation(userInput)[1])
      [] currentQuestion = <<"location">> -> With(updatedData, "location", userInput)
      [] currentQuestion = <<"budget">> ->
           With(updatedData, "budget", OrElse(extractBudget(userInput), <<userInput>>)[1])
      [] currentQuestion = <<"timeline">> -> With(updatedData, "timeline", userInput)
      [] currentQuestion = <<"specific">> ->
           With(updatedData, "additionalInfo",
                With(IF "additionalInfo" \in DOMAIN updatedData
                     THEN updatedData["additionalInfo"] ELSE <<>>,
                     "specific", userInput))
      [] OTHER -> updatedData

\* StoreAnswer that writes the timeline answer to a property nothing reads
StoreAnswer_DropsTimeline(currentQuestion, userInput, updatedData) ==
    CASE currentQuestion = <<"location">> -> With(updatedData, "location", userInput)
      [] currentQuestion = <<"budget">> ->
           With(updatedData, "budget", OrElse(extractBudget(userInput), <<userInput>>)[1])
      [] currentQuestion = <<"timeline">> -> With(updatedData, "timeframe", userInput)
      [] currentQuestion = <<"specific">> ->
           With(updatedData, "additionalInfo",
                With(IF "additionalInfo" \in DOMAIN updatedData
                     THEN updatedData["additionalInfo"] ELSE <<>>,
                     "specific", userInput))
      [] OTHER -> updatedData

\* the data with the timeline extractTimeline finds in the answer, if any
WithExtractedTimeline(data, userInput) ==
    IF Present(extractTimeline(userInput)) /\ ~Truthy(data, "timeline")
    THEN With(data, "timeline", extractTimeline(userInput)[1])
    ELSE data

\* StoreAnswer that also runs the timeline extractor on the answer to another
\* question
StoreAnswer_ExtractsTimeline(currentQuestion, userInput, updatedData) ==
    CASE currentQuestion = <<"location">> ->
           WithExtractedTimeline(With(updatedData, "location", userInput), userInput)
      [] currentQuestion = <<"budget">> ->
           WithExtractedTimeline(
               With(updatedData, "budget", OrElse(extractBudget(userInput), <<userInput>>)[1]),
               userInput)
      [] currentQuestion = <<"timeline">> -> With(updatedData, "timeline", userInput)
      [] currentQuestion = <<"specific">> ->
           With(updatedData, "additionalInfo",
                With(IF "additionalInfo" \in DOMAIN updatedData
                     THEN updatedData["additionalInfo"] ELSE <<>>,
                     "specific", userInput))
      [] OTHER -> updatedData

\* StoreAnswer that appends the task-specific answer to the details
StoreAnswer_SpecificIntoDetails(currentQuestion, userInput, updatedData) ==
    CASE currentQuestion = <<"location">> -> With(updatedData, "location", userInput)
      [] currentQuestion = <<"budget">> ->
           With(updatedData, "budget", OrElse(extractBudget(userInput), <<userInput>>)[1])
      [] currentQuestion = <<"timeline">> -> With(updatedData, "timeline", userInput)
      [] currentQuestion = <<"specific">> ->
           With(updatedData, "details", updatedData["details"] \o " " \o userInput)
      [] OTHER -> updatedData

\* lines 230-238: the answer stored under the head of the missing list
StoreAnswer(currentQuestion, userInput, updatedData) ==
    CASE currentQuestion = <<"location">> -> With(updatedData, "location", userInput)
      [] currentQuestion = <<"budget">> ->
           With(updatedData, "budget", OrElse(extractBudget(userInput), <<userInput>>)[1])
      [] currentQuestion = <<"timeline">> -> With(updatedData, "timeline", userInput)
      [] currentQuestion = <<"specific">> ->
           With(updatedData, "additionalInfo",
                With(IF "additionalInfo" \in DOMAIN updatedData
                     THEN updatedData["additionalInfo"] ELSE <<>>,
                     "specific", userInput))
      [] OTHER -> updatedData

\* the test of line 189 with the bound one too high
IsFirstMessage_OffByOne(messagesLength) == messagesLength <= 2

\* line 189
IsFirstMessage(messagesLength) == messagesLength <= 1

\* missingInfo[0], <<>> for undefined
HeadOf(missing) == IF missing = <<>> THEN <<>> ELSE <<missing[1]>>

Reverse(seq) == [ i \in 1..Len(seq) |-> seq[Len(seq) + 1 - i] ]

\* lines 205-223
FirstResponse(updatedData, missingInfo) ==
    IF Len(missingInfo) > 0
    THEN [ message |-> "Perfect! I understand you need "
                         \o toLowerCase(updatedData["taskType"]) \o ". "
                         \o getNextQuestion(missingInfo[1], TaskTypeOf(updatedData)),
           updatedData |-> updatedData,
           suggestions |-> getQuestionSuggestions(missingInfo[1], TaskTypeOf(updatedData)),
           data |-> <<>>,
           isComplete |-> FALSE,
           branch |-> "first",
           currentQuestion |-> <<>>,
           asked |-> HeadOf(missingInfo) ]
    ELSE [ message |-> "Excellent! I have everything I need. Let me find the best "
                         \o toLowerCase(updatedData["taskType"])
                         \o " providers in your area...",
           updatedData |-> updatedData,
           suggestions |-> <<>>,
           data |-> <<>>,
           isComplete |-> TRUE,
           branch |-> "first",
           currentQuestion |-> <<>>,
           asked |-> HeadOf(missingInfo) ]

\* lines 243-263
LaterResponse(updatedData, missingInfo, currentQuestion) ==
    IF Len(missingInfo) > 0
    THEN [ message |-> "Got it! "
                         \o getNextQuestion(missingInfo[1], TaskTypeOf(updatedData)),
           updatedData |-> updatedData,
           suggestions |-> getQuestionSuggestions(missingInfo[1], TaskTypeOf(updatedData)),
           data |-> <<>>,
           isComplete |-> FALSE,
           branch |-> "subsequent",
           currentQuestion |-> currentQuestion,
           asked |-> HeadOf(missingInfo) ]
    ELSE [ message |-> "Perfect! Here's what I understand:\n\n"
                         \o generateSummary(updatedData)
                         \o "\n\nLet me find you the best providers...",
           updatedData |-> updatedData,
           suggestions |-> <<>>,
           data |-> <<updatedData>>,
           isComplete |-> TRUE,
           branch |-> "subsequent",
           currentQuestion |-> currentQuestion,
           asked |-> HeadOf(missingInfo) ]

\* lines 203 and 241: the missing list of the updated slots decides the response
RespondFirst(updatedData) == FirstResponse(updatedData, getMissingInfo(updatedData))

RespondLater(updatedData, currentQuestion) ==
    LaterResponse(updatedData, getMissingInfo(updatedData), currentQuestion)

\* lines 227-238
AnswerCurrentQuestion(userInput, currentData, currentQuestion) ==
    RespondLater(StoreAnswer(currentQuestion, userInput, currentData), currentQuestion)

\* a later turn that stores the answer in the slot of the last missing field
processUserInput_AnswersLastMissing(userInput, currentData, messagesLength) ==
    IF IsFirstMessage(messagesLength)
    THEN RespondFirst(FirstTurnData(userInput, currentData))
    ELSE AnswerCurrentQuestion(userInput, currentData,
                               HeadOf(Reverse(getMissingInfo(currentData))))

processUserInput(userInput, currentData, messagesLength) ==
    IF IsFirstMessage(messagesLength)
    THEN RespondFirst(FirstTurnData(userInput, currentData))
    ELSE AnswerCurrentQuestion(userInput, currentData, HeadOf(getMissingInfo(currentData)))

(***************************************************************************)
(* generateFinalRequest and the record handed to blink.db.requests.create. *)
(***************************************************************************)
\* the object property k as an optional value
Prop(obj, k) == IF k \in DOMAIN obj THEN <<obj[k]>> ELSE <<>>

\* an object of the properties whose optional value is present
ObjectOf(props) ==
    [ k \in { x \in DOMAIN props : props[x] # <<>> } |-> props[k][1] ]

\* the merge with the operands of both || exchanged
MergeFinalRequest_PrefersObject(data, object) ==
    ObjectOf([ taskType |-> OrElse(Prop(object, "taskType"), Prop(data, "taskType")),
               skills |-> Prop(object, "skills"),
               location |-> OrElse(Prop(object, "location"), Prop(data, "location")),
               duration |-> Prop(object, "duration"),
               suggestedPrice |-> Prop(object, "suggestedPrice"),
               description |-> Prop(object, "description") ])

\* lines 421-428, on the object the collaborator resolved with
MergeFinalRequest(data, object) ==
    ObjectOf([ taskType |-> OrElse(Prop(data, "taskType"), Prop(object, "taskType")),
               skills |-> Prop(object, "skills"),
               location |-> OrElse(Prop(data, "location"), Prop(object, "location")),
               duration |-> Prop(object, "duration"),
               suggestedPrice |-> Prop(object, "suggestedPrice"),
               description |-> Prop(object, "description") ])

\* JSON.stringify of an array of strings (none of which needs escaping), and of
\* undefined, which it leaves undefined
RECURSIVE QuoteAll(_)
QuoteAll(strings) ==
    IF strings = <<>> THEN <<>> ELSE <<"\"" \o strings[1] \o "\"">> \o QuoteAll(Tail(strings))

JSONstringify(skills) ==
    IF skills = <<>> THEN <<>> ELSE <<"[" \o Join(QuoteAll(skills[1]), ",") \o "]">>

userId == "user_1"

\* lines 155-166: the record of one request, created at time `now`
RequestRecord(now, updatedData, messageText, finalRequest) ==
    ObjectOf([ id |-> <<"req_" \o ToString(now)>>,
               userId |-> <<userId>>,
               inputText |-> OrElse(Prop(updatedData, "details"), <<messageText>>),
               parsedTaskType |-> Prop(finalRequest, "taskType"),
               parsedSkills |-> JSONstringify(Prop(finalRequest, "skills")),
               parsedLocation |-> Prop(finalRequest, "location"),
               parsedDuration |-> Prop(finalRequest, "duration"),
               suggestedPrice |-> Prop(finalRequest, "suggestedPrice"),
               finalPrice |-> Prop(finalRequest, "suggestedPrice"),
               status |-> <<"processing">> ])

(***************************************************************************)
(* The inputs: what the user types, which suggestion and quick-starter     *)
(* buttons the user clicks, what the collaborators answer.                 *)
(***************************************************************************)
MaxTurns == 5

TypedTexts == { " ", "Fix my sink in Austin, TX today for $50", "Brooklyn, NY" }

ClickedSuggestions ==
    { "Looking for a photographer", "Brooklyn, NY", "$50-100" }

\* what blink.ai.generateObject resolves with: an object of the schema, whose
\* taskType and location differ from those collected, and one without suggestedPrice
ValidObject ==
    [ taskType |-> "Echoed task", skills |-> <<"camera", "editing">>,
      location |-> "Echoed place", duration |-> "2 hours", suggestedPrice |-> 120,
      description |-> "A scoped request" ]

ObjectWithoutPrice ==
    [ taskType |-> "Echoed task", skills |-> <<"camera", "editing">>,
      location |-> "Echoed place", duration |-> "2 hours",
      description |-> "A scoped request" ]

GeneratedObjects == { ValidObject, ObjectWithoutPrice }

\* the object conforms to the schema of lines 404-418
ConformsToSchema(object) ==
    \A k \in {"taskType", "skills", "location", "duration", "suggestedPrice", "description"} :
        k \in DOMAIN object

\* the values of Date.now()
DateNow == { 1, 2 }

(***************************************************************************)
(* The state of one mounted RequestFlow.  Every call of handleSubmit that  *)
(* has passed its guard and not yet returned is an element of `handlers`,  *)
(* suspended at one of its awaits.                                         *)
(***************************************************************************)
VARIABLES
    inputText,      \* useState('')
    messages,       \* useState<Message[]>([])
    isProcessing,   \* useState(false)
    scopingData,    \* useState<ScopingData>({})
    isComplete,     \* useState(false)
    parsedRequest,  \* useState<ParsedRequest | null>(null)
    requestId,      \* useState<string | null>(null)
    showWelcome,    \* useState(true)
    welcomeTimer,   \* the timeout of the welcome effect: "pending" or "fired"
    handlers,       \* the running calls of handleSubmit: their await, locals and closure
    requests,       \* the records of blink.db.requests
    responses,      \* what each call of processUserInput returned, in order
    calls,          \* the outbound calls made, in order, each with its turn
    replies,        \* how the outbound calls settled, in order, with the object generated
    argument,       \* the input a function of the component is applied to, <<>> for none
    returned        \* the function applied to `argument` and what it returned

\* The view-switching App (src/unnamed/part_000) and the RequestFlow it renders
\* (src/unnamed/part_001, the variant that asks a text generator).
VARIABLES
    currentView,    \* App: useState('home')
    currentRequest, \* App: useState(null), <<>> for null
    assistant,      \* the useState values of the mounted RequestFlow, <<>> when none is mounted
    summaries,      \* the number of summaries setRequestSummary has stored so far
    started,        \* the number of handleSend and handleConfirmRequest calls so far
    generating,     \* the running calls of generateAIResponse
    confirming,     \* the running calls of handleConfirmRequest
    created,        \* the records blink.db.requests.create stored for handleConfirmRequest
    completions     \* the calls of onRequestComplete, in order

\* ProviderMatches and the BookingFlow it renders (ProviderMatches.tsx)
VARIABLES
    providerMatches, \* the useState values of ProviderMatches
    bookingFlow,     \* the useState values of the mounted BookingFlow, <<>> when none is mounted
    finding,         \* the call of findMatchingProviders made by the mount effect
    bookingHandlers, \* the running calls of handleBooking
    bookings,        \* the records of blink.db.bookings
    updates          \* the calls of blink.db.requests.update that resolved

flowVars ==
    << inputText, messages, isProcessing, scopingData, isComplete, parsedRequest,
       requestId, showWelcome, welcomeTimer, handlers, requests, responses, calls,
       replies >>

appVars ==
    << currentView, currentRequest, assistant, summaries, started, generating,
       confirming, created, completions >>

matchVars ==
    << providerMatches, bookingFlow, finding, bookingHandlers, bookings, updates >>

vars ==
    << inputText, messages, isProcessing, scopingData, isComplete, parsedRequest,
       requestId, showWelcome, welcomeTimer, handlers, requests, responses, calls,
       replies, argument, returned, appVars, matchVars >>

\* part_000 lines 19-20: the App shows the home page and renders no RequestFlow
AppMounted ==
    /\ currentView = "home"
    /\ currentRequest = <<>>
    /\ assistant = <<>>
    /\ summaries = 0
    /\ started = 0
    /\ generating = <<>>
    /\ confirming = <<>>
    /\ created = <<>>
    /\ completions = <<>>

\* ProviderMatches.tsx lines 31-38: ProviderMatches after it mounted; its effect
\* has called findMatchingProviders, which awaits generateMockProviders
MatchesMounted ==
    /\ providerMatches = [ providers |-> <<>>, loading |-> TRUE,
                           selectedProvider |-> <<>>, showBooking |-> FALSE ]
    /\ bookingFlow = <<>>
    /\ finding = [ pc |-> "generateMockProviders", mockProviders |-> <<>> ]
    /\ bookingHandlers = <<>>
    /\ bookings = <<>>
    /\ updates = <<>>

\* the state of the component after it mounted
Mounted ==
    /\ inputText = ""
    /\ messages = <<>>
    /\ isProcessing = FALSE
    /\ scopingData = <<>>
    /\ isComplete = FALSE
    /\ parsedRequest = <<>>
    /\ requestId = <<>>
    /\ showWelcome = TRUE
    /\ welcomeTimer = "pending"
    /\ handlers = <<>>
    /\ requests = <<>>
    /\ responses = <<>>
    /\ calls = <<>>
    /\ replies = <<>>

Init ==
    /\ Mounted
    /\ argument = <<>>
    /\ returned = <<>>
    /\ AppMounted
    /\ MatchesMounted

\* the handleSubmit calls that passed the guard of line 107 so far
TurnsStarted == Len(responses) + Len(SelectSeq(handlers, LAMBDA h : h.pc = "delay"))

RemoveAt(seq, i) == SubSeq(seq, 1, i - 1) \o SubSeq(seq, i + 1, Len(seq))

Last(seq) == seq[Len(seq)]

\* line 443: the component renders ProviderMatches instead of the chat
ShowsProviderMatches == parsedRequest # <<>> /\ Present(requestId)

\* prev.filter(m => m.content !== 'thinking')
WithoutThinking(msgs) == SelectSeq(msgs, LAMBDA m : m.content # "thinking")

\* lines 65-78: the timeout of the welcome effect fires
WelcomeTimer ==
    /\ welcomeTimer = "pending"
    /\ welcomeTimer' = "fired"
    /\ messages' = <<welcomeMessage>>
    /\ UNCHANGED << inputText, isProcessing, scopingData, isComplete, parsedRequest,
                    requestId, showWelcome, handlers, requests, responses, calls,
                    replies, argument, returned,
                    appVars, matchVars >>

\* lines 587-598: the text input is rendered and enabled
InputEnabled == ~ShowsProviderMatches /\ ~isComplete /\ ~isProcessing

\* line 593: onChange of the text input
TypeText(t) ==
    /\ InputEnabled
    /\ t # inputText
    /\ inputText' = t
    /\ UNCHANGED << messages, isProcessing, scopingData, isComplete, parsedRequest,
                    requestId, showWelcome, welcomeTimer, handlers, requests,
                    responses, calls, replies, argument, returned,
                    appVars, matchVars >>

\* lines 105-130: handleSubmit(text) up to its first await.  The closure holds
\* the messages and scopingData of the render the handler was created in.
handleSubmitFrom(text, typed) ==
    \E messageText \in { OrElse(text, <<typed>>)[1] } :
        /\ ~IsBlank(messageText)
        /\ TurnsStarted < MaxTurns
        /\ showWelcome' = FALSE
        /\ messages' = messages \o <<UserMessage(messageText), thinkingMessage>>
        /\ isProcessing' = TRUE
        /\ inputText' = ""
        /\ handlers' = Append(handlers,
                              [ n |-> TurnsStarted + 1,
                                pc |-> "delay",
                                messageText |-> messageText,
                                messagesLength |-> Len(messages),
                                currentData |-> scopingData,
                                updatedData |-> <<>>,
                                newRequest |-> <<>> ])
        /\ UNCHANGED << scopingData, isComplete, parsedRequest, requestId, welcomeTimer,
                        requests, responses, calls, replies, argument, returned,
                    appVars, matchVars >>

\* handleSubmit(text) of the current render, whose inputText is the text typed
handleSubmit(text) == handleSubmitFrom(text, inputText)

\* lines 431-436 and 613-615: Enter in the text input, or the send button
SendTyped ==
    /\ InputEnabled
    /\ handleSubmit(<<>>)

\* lines 560-578: the quick-starter buttons are rendered
QuickStartersShown == ~ShowsProviderMatches /\ showWelcome /\ Len(messages) = 0

ClickQuickStarter(i) ==
    /\ QuickStartersShown
    /\ quickStarters[i] \in ClickedSuggestions
    /\ handleSubmit(<<quickStarters[i]>>)

\* the suggestion buttons without disabled={isProcessing}
SuggestionEnabled_WhileProcessing(m, j) ==
    /\ ~ShowsProviderMatches
    /\ m \in 1..Len(messages)
    /\ j \in 1..Len(messages[m].suggestions)

\* the suggestion buttons hidden, like the input area, once isComplete is set
SuggestionEnabled_HiddenWhenComplete(m, j) ==
    /\ ~ShowsProviderMatches
    /\ ~isComplete
    /\ m \in 1..Len(messages)
    /\ j \in 1..Len(messages[m].suggestions)
    /\ ~isProcessing

\* lines 491-509: suggestion button j of message m is rendered and enabled
SuggestionEnabled(m, j) ==
    /\ ~ShowsProviderMatches
    /\ m \in 1..Len(messages)
    /\ j \in 1..Len(messages[m].suggestions)
    /\ ~isProcessing

\* a suggestion button that submits the suggestion after the text typed so far
ClickSuggestion_AppendsToDraft(m, j) ==
    /\ SuggestionEnabled(m, j)
    /\ messages[m].suggestions[j] \in ClickedSuggestions
    /\ handleSubmit(<<inputText \o messages[m].suggestions[j]>>)

\* lines 438-440 and 501
ClickSuggestion(m, j) ==
    /\ SuggestionEnabled(m, j)
    /\ messages[m].suggestions[j] \in ClickedSuggestions
    /\ handleSubmit(<<messages[m].suggestions[j]>>)

\* a handler that returns without the finally block
Finally_KeepsProcessing(h) ==
    /\ isProcessing' = isProcessing
    /\ handlers' = RemoveAt(handlers, h)

\* lines 180-182: finally, and handler h returns
Finally(h) ==
    /\ isProcessing' = FALSE
    /\ handlers' = RemoveAt(handlers, h)

\* catch that removes the thinking indicator and appends no error message
Catch_Silent(h) ==
    /\ messages' = WithoutThinking(messages)
    /\ isProcessing' = FALSE
    /\ handlers' = RemoveAt(handlers, h)

\* lines 171-182: catch, then finally
Catch(h) ==
    /\ messages' = Append(WithoutThinking(messages), errorMessage)
    /\ Finally(h)

\* lines 137-143
AiMessage(aiResponse) ==
    [ type |-> "ai", content |-> aiResponse.message,
      suggestions |-> aiResponse.suggestions, data |-> aiResponse.data ]

\* line 132, with the turn and the utterance the response belongs to
ResponseOf(h) ==
    [ turn |-> h.n, userInput |-> h.messageText ]
    @@ processUserInput(h.messageText, h.currentData, h.messagesLength)

\* a handler that finalizes after every turn
Finalizes_EveryTurn(aiResponse) == TRUE

\* line 148: if (aiResponse.isComplete)
Finalizes(aiResponse) == aiResponse.isComplete

\* lines 130-152: the thinking delay of handler h is over.  The welcome timeout
\* (500 ms, set when the component mounted) is due before the delay (1200 ms,
\* set later).
ThinkingDone(h) ==
    /\ handlers[h].pc = "delay"
    /\ welcomeTimer = "fired"
    /\ \E aiResponse \in { ResponseOf(handlers[h]) } :
           /\ messages' = Append(WithoutThinking(messages), AiMessage(aiResponse))
           /\ scopingData' = aiResponse.updatedData
           /\ responses' = Append(responses, aiResponse)
           /\ IF Finalizes(aiResponse)
              THEN /\ isComplete' = TRUE
                   /\ handlers' = [ handlers EXCEPT ![h].pc = "generateObject",
                                                    ![h].updatedData = aiResponse.updatedData ]
                   /\ calls' = Append(calls, [ api |-> "generateObject",
                                               turn |-> handlers[h].n ])
                   /\ UNCHANGED isProcessing
              ELSE /\ Finally(h)
                   /\ UNCHANGED << isComplete, calls >>
    /\ UNCHANGED << inputText, parsedRequest, requestId, showWelcome, welcomeTimer,
                    requests, replies, argument, returned,
                    appVars, matchVars >>

\* lines 151-166: blink.ai.generateObject resolves with `object`; the request is
\* merged and stored, and blink.db.requests.create is called at time `now`
GenerateObjectResolves(h, object, now) ==
    /\ handlers[h].pc = "generateObject"
    /\ \E finalRequest \in { MergeFinalRequest(handlers[h].updatedData, object) } :
           /\ parsedRequest' = <<finalRequest>>
           /\ handlers' = [ handlers EXCEPT
                              ![h].pc = "create",
                              ![h].newRequest =
                                 <<RequestRecord(now, handlers[h].updatedData,
                                                 handlers[h].messageText, finalRequest)>> ]
    /\ calls' = Append(calls, [ api |-> "create", turn |-> handlers[h].n ])
    /\ replies' = Append(replies, [ api |-> "generateObject", turn |-> handlers[h].n,
                                    outcome |-> "resolved", value |-> <<object>> ])
    /\ UNCHANGED << inputText, messages, isProcessing, scopingData, isComplete,
                    requestId, showWelcome, welcomeTimer, requests, responses,
                    argument, returned,
                    appVars, matchVars >>

\* blink.ai.generateObject rejects
GenerateObjectRejects(h) ==
    /\ handlers[h].pc = "generateObject"
    /\ Catch(h)
    /\ replies' = Append(replies, [ api |-> "generateObject", turn |-> handlers[h].n,
                                    outcome |-> "rejected", value |-> <<>> ])
    /\ UNCHANGED << inputText, scopingData, isComplete, parsedRequest, requestId,
                    showWelcome, welcomeTimer, requests, responses, calls,
                    argument, returned,
                    appVars, matchVars >>

\* create resolves and the handler does not call setRequestId
CreateResolves_ForgetsId(h) ==
    /\ handlers[h].pc = "create"
    /\ requests' = Append(requests, handlers[h].newRequest[1])
    /\ isProcessing' = FALSE
    /\ handlers' = RemoveAt(handlers, h)
    /\ replies' = Append(replies, [ api |-> "create", turn |-> handlers[h].n,
                                    outcome |-> "resolved", value |-> <<>> ])
    /\ UNCHANGED << inputText, messages, scopingData, isComplete, parsedRequest,
                    requestId, showWelcome, welcomeTimer, responses, calls,
                    argument, returned,
                    appVars, matchVars >>

\* lines 155-168: blink.db.requests.create resolves with the record it stored
CreateResolves(h) ==
    /\ handlers[h].pc = "create"
    /\ requests' = Append(requests, handlers[h].newRequest[1])
    /\ requestId' = Prop(handlers[h].newRequest[1], "id")
    /\ Finally(h)
    /\ replies' = Append(replies, [ api |-> "create", turn |-> handlers[h].n,
                                    outcome |-> "resolved", value |-> <<>> ])
    /\ UNCHANGED << inputText, messages, scopingData, isComplete, parsedRequest,
                    showWelcome, welcomeTimer, responses, calls, argument, returned,
                    appVars, matchVars >>

\* blink.db.requests.create rejects
CreateRejects(h) ==
    /\ handlers[h].pc = "create"
    /\ Catch(h)
    /\ replies' = Append(replies, [ api |-> "create", turn |-> handlers[h].n,
                                    outcome |-> "rejected", value |-> <<>> ])
    /\ UNCHANGED << inputText, scopingData, isComplete, parsedRequest, requestId,
                    showWelcome, welcomeTimer, requests, responses, calls,
                    argument, returned,
                    appVars, matchVars >>

Next ==
    \/ WelcomeTimer
    \/ \E t \in TypedTexts : TypeText(t)
    \/ SendTyped
    \/ \E i \in 1..Len(quickStarters) : ClickQuickStarter(i)
    \/ \E m \in 1..Len(messages) : \E j \in 1..Len(messages[m].suggestions) : ClickSuggestion(m, j)
    \/ \E h \in 1..Len(handlers) : ThinkingDone(h)
    \/ \E h \in 1..Len(handlers) : \E object \in GeneratedObjects : \E now \in DateNow :
          GenerateObjectResolves(h, object, now)
    \/ \E h \in 1..Len(handlers) : GenerateObjectRejects(h)
    \/ \E h \in 1..Len(handlers) : CreateResolves(h)
    \/ \E h \in 1..Len(handlers) : CreateRejects(h)

Spec == Init /\ [][Next]_vars

\* an await of a running handler settles: the thinking delay elapses, or a call
\* resolves or rejects
Settles ==
    \E h \in 1..Len(handlers) :
        \/ ThinkingDone(h)
        \/ \E object \in GeneratedObjects : \E now \in DateNow :
               GenerateObjectResolves(h, object, now)
        \/ GenerateObjectRejects(h)
        \/ CreateResolves(h)
        \/ CreateRejects(h)

\* Settles is enabled: a handler waits for a call, or for the thinking delay
\* with the welcome timeout, which is due earlier, fired
SettleEnabled ==
    /\ handlers # <<>>
    /\ welcomeTimer = "fired" \/ \E h \in 1..Len(handlers) : handlers[h].pc # "delay"

\* timeouts fire and every asynchronous call eventually settles: weak fairness
\* of WelcomeTimer and of Settles, the latter with its enabling condition
\* written as the state predicate SettleEnabled
FairSpec ==
    /\ Spec
    /\ WF_vars(WelcomeTimer)
    /\ []<>(~SettleEnabled) \/ []<><<Settles>>_vars

(***************************************************************************)
(* The RequestFlow of src/unnamed/part_001, which asks a text generator    *)
(* for every reply, inside the App of src/unnamed/part_000, which shows    *)
(* one view at a time.  Leaving the 'request' view unmounts the            *)
(* RequestFlow; the calls it has started go on and their setState calls    *)
(* are then without effect, while the callbacks of the App still act.      *)
(***************************************************************************)
MaxCalls == 3

\* part_001 lines 30-37: the texts of quickStarters
starterTexts ==
    << "Looking for a photographer", "Need apartment cleaning", "Handyman services needed",
       "Tech support required", "Help with moving", "Graphic design work" >>

\* lines 64-71: the message addMessage builds (id and timestamp are not read
\* by any handler)
newMessage(content, type, suggestions) ==
    [ type |-> type, content |-> content, suggestions |-> suggestions ]

\* lines 40-52: the state of a RequestFlow when it mounts
Fresh ==
    [ messages |-> << newMessage("Hi! I'm here to help you find the perfect service provider. What do you need help with today?",
                                 "ai", <<>>) >>,
      inputValue |-> "",
      isThinking |-> FALSE,
      requestSummary |-> <<>>,
      showConfirmation |-> FALSE ]

Lowest(S) == CHOOSE x \in S : \A y \in S : x <= y

Highest(S) == CHOOSE x \in S : \A y \in S : x >= y

Ink(s) == { i \in 1..Len(s) : CharAt(s, i) \notin WhiteSpace }

\* String.prototype.trim
trim(s) == IF Ink(s) = {} THEN "" ELSE SubSeq(s, Lowest(Ink(s)), Highest(Ink(s)))

IndexesOf(c, text) == { i \in 1..Len(text) : CharAt(text, i) = c }

ClosesAfter(open, text) == { i \in IndexesOf("}", text) : i > open }

\* line 113: text.match(/\{[\s\S]*\}/), from the first { to the last } after it;
\* <<>> for null
jsonMatch(text) ==
    IF IndexesOf("{", text) = {} \/ ClosesAfter(Lowest(IndexesOf("{", text)), text) = {}
    THEN <<>>
    ELSE << SubSeq(text, Lowest(IndexesOf("{", text)),
                   Highest(ClosesAfter(Lowest(IndexesOf("{", text)), text))) >>

\* a summary the generator writes, and the object it denotes
SummaryJSON ==
    "{\"service\":\"Cleaning\",\"description\":\"Deep clean of a flat\",\"location\":\"Brooklyn, NY\",\"budget\":150,\"timeline\":\"This weekend\",\"estimatedHours\":3,\"flatPrice\":120}"

SummaryObject ==
    [ service |-> "Cleaning", description |-> "Deep clean of a flat",
      location |-> "Brooklyn, NY", budget |-> 150, timeline |-> "This weekend",
      estimatedHours |-> 3, flatPrice |-> 120 ]

\* line 116: JSON.parse on the texts the generator writes; <<>> when it throws
JSONparse(json) == IF json = SummaryJSON THEN <<SummaryObject>> ELSE <<>>

\* lines 112-116: the summary in the generated text, <<>> when there is none or
\* it does not parse
SummaryIn(text) ==
    IF includes(text, "READY_FOR_SUMMARY") /\ jsonMatch(text) # <<>>
    THEN JSONparse(jsonMatch(text)[1])
    ELSE <<>>

\* lines 119-132
summaryMessage(summary) ==
    newMessage("Perfect! I've gathered all the details for your " \o summary.service
                   \o " request. Here's what I understand:\n\n**Service:** " \o summary.service
                   \o "\n**Description:** " \o summary.description
                   \o "\n**Location:** " \o summary.location
                   \o "\n**Budget:** $" \o ToString(summary.budget)
                   \o "\n**Timeline:** " \o summary.timeline
                   \o "\n**Estimated Time:** " \o ToString(summary.estimatedHours) \o " hours"
                   \o "\n**Flat Price:** $" \o ToString(summary.flatPrice)
                   \o "\n\nDoes this look correct? I can find providers who match your budget and requirements.",
               "ai", <<>>)

\* lines 141-154
contextualSuggestions(lowerText) ==
    CASE includes(lowerText, "location") \/ includes(lowerText, "where") ->
           << "Manhattan, NY", "Brooklyn, NY", "Queens, NY" >>
      [] includes(lowerText, "budget") \/ includes(lowerText, "cost") ->
           << "$50-100", "$100-200", "$200-500" >>
      [] includes(lowerText, "when") \/ includes(lowerText, "timeline") ->
           << "This weekend", "Next week", "ASAP" >>
      [] includes(lowerText, "photography") ->
           << "Portrait session", "Event photography", "Product photos" >>
      [] includes(lowerText, "cleaning") ->
           << "Deep cleaning", "Regular maintenance", "Move-out cleaning" >>
      [] OTHER -> <<>>

\* what blink.ai.generateText writes: a question, a summary, a summary that does
\* not parse
GeneratedTexts ==
    { "Where are you located?",
      "READY_FOR_SUMMARY\n" \o SummaryJSON,
      "READY_FOR_SUMMARY {service: Cleaning}" }

\* the texts typed into the input
TypedValues == { "  ", " I need a cleaner " }

\* the quick starters and the suggestions of a message that are clicked
ClickedStarters == { 2 }

ClickedOfMessage == { 1 }

\* what the actions of the App and of its RequestFlow leave alone
outsideApp == << flowVars, argument, returned, matchVars >>

\* what the navigation does not change
inFlight == << summaries, started, confirming, created, completions >>

UserMessagesOf(list) == SelectSeq(list, LAMBDA m : m.type = "user")

ContentOf(list) == [ i \in 1..Len(list) |-> list[i].content ]

\* part_000 lines 53-101: the view shown changes; the 'request' view mounts a
\* new RequestFlow, every other view renders none.  The generateAIResponse
\* calls of a RequestFlow that is unmounted only set its state, which has no
\* effect any more: they are dropped here.
Show(view) ==
    /\ currentView' = view
    /\ generating' = <<>>
    /\ assistant' = IF view = "request" THEN Fresh ELSE <<>>

\* a button of the App or of the view shown sets the view
Navigate(from, to) ==
    /\ currentView = from
    /\ Show(to)
    /\ UNCHANGED << currentRequest, inFlight, outsideApp >>

\* part_000 lines 120, 127, 170 and 187: the buttons of the home page
HomeButton(view) ==
    /\ view \in { "user-dashboard", "provider-dashboard", "request" }
    /\ Navigate("home", view)

\* part_000 lines 63, 88 and 95: onBack of RequestFlow and of the dashboards
BackHome(from) ==
    /\ from \in { "request", "provider-dashboard", "user-dashboard" }
    /\ Navigate(from, "home")

\* part_000 lines 70-72: onProviderSelect of ProviderMatches
onProviderSelect == Navigate("matches", "booking")

\* part_000 line 73: onBack of ProviderMatches
BackToRequest == Navigate("matches", "request")

\* part_000 line 80: onBookingComplete of BookingFlow
onBookingComplete == Navigate("booking", "user-dashboard")

\* part_000 line 81: onBack of BookingFlow
BackToMatches == Navigate("booking", "matches")

\* an onRequestComplete that only changes the view
onRequestComplete_KeepsRequest(request) ==
    /\ UNCHANGED currentRequest
    /\ Show("matches")

\* part_000 lines 59-62: onRequestComplete of RequestFlow
onRequestComplete(request) ==
    /\ currentRequest' = <<request>>
    /\ Show("matches")

\* part_001 line 423: onChange of the input, which is rendered without the
\* confirmation card and disabled while thinking
TypeValue(t) ==
    /\ assistant # <<>>
    /\ ~assistant.showConfirmation
    /\ ~assistant.isThinking
    /\ assistant' = [ assistant EXCEPT !.inputValue = t ]
    /\ UNCHANGED << currentView, currentRequest, generating, inFlight, outsideApp >>

\* part_001 lines 165-173 and 75-80: handleSend adds the user message, clears
\* the input and calls generateAIResponse, which sets isThinking and awaits
handleSendOf(messageToSend) ==
    /\ messageToSend # ""
    /\ started < MaxCalls
    /\ started' = started + 1
    /\ assistant' = [ assistant EXCEPT
                        !.messages = Append(@, newMessage(messageToSend, "user", <<>>)),
                        !.inputValue = "",
                        !.isThinking = TRUE ]
    /\ generating' = Append(generating, [ userMessage |-> messageToSend,
                                          context |-> assistant.messages ])
    /\ UNCHANGED << currentView, currentRequest, summaries, confirming, created,
                    completions, outsideApp >>

\* line 166: message || inputValue.trim()
handleSend(message) ==
    handleSendOf(IF Present(message) THEN message[1] ELSE trim(assistant.inputValue))

\* lines 424 and 429-431: Enter in the input, or the send button
SendValue ==
    /\ assistant # <<>>
    /\ ~assistant.showConfirmation
    /\ ~assistant.isThinking
    /\ handleSend(<<>>)

\* lines 175-177 and 299-307: a quick starter, shown while there is one message
handleQuickStart(i) ==
    /\ assistant # <<>>
    /\ Len(assistant.messages) = 1
    /\ handleSend(<<starterTexts[i]>>)

\* lines 279-292: suggestion j of message m is rendered, as a button
SuggestionShown(m, j) ==
    /\ assistant # <<>>
    /\ m \in 1..Len(assistant.messages)
    /\ j \in 1..Len(assistant.messages[m].suggestions)

\* lines 179-181 and 286
handleSuggestionClick(m, j) ==
    /\ SuggestionShown(m, j)
    /\ handleSend(<<assistant.messages[m].suggestions[j]>>)

\* lines 112-154 for each text the generator writes: the summary parsed from it,
\* the message of lines 119-132 and the suggestions of lines 141-154
Parsed ==
    [ text \in GeneratedTexts |->
        [ summary |-> SummaryIn(text),
          message |-> IF SummaryIn(text) # <<>>
                      THEN summaryMessage(SummaryIn(text)[1])
                      ELSE newMessage(text, "ai", contextualSuggestions(toLowerCase(text))) ] ]

\* lines 112-156: the state after generateText wrote `text`
AfterText(text) ==
    IF Parsed[text].summary # <<>>
    THEN [ assistant EXCEPT
             !.requestSummary = Parsed[text].summary,
             !.showConfirmation = TRUE,
             !.messages = Append(@, Parsed[text].message),
             !.isThinking = FALSE ]
    ELSE [ assistant EXCEPT
             !.messages = Append(@, Parsed[text].message),
             !.isThinking = FALSE ]

\* lines 157-159 and 161
AfterError ==
    [ assistant EXCEPT
        !.messages = Append(@, newMessage("I'm having trouble processing that. Could you try rephrasing your request?",
                                          "ai", <<>>)),
        !.isThinking = FALSE ]

\* call g of generateAIResponse ends and leaves the state `after` in the
\* RequestFlow that made it
GenerateEnds(g, after, summary) ==
    /\ g \in 1..Len(generating)
    /\ generating' = RemoveAt(generating, g)
    /\ assistant' = after
    /\ summaries' = summaries + Len(summary)
    /\ UNCHANGED << currentView, currentRequest, started, confirming, created,
                    completions, outsideApp >>

\* lines 80-156 and 160-162: the delay is over and blink.ai.generateText
\* resolves with `text`
GenerateTextResolves(g, text) == GenerateEnds(g, AfterText(text), Parsed[text].summary)

\* lines 157-162: blink.ai.generateText rejects
GenerateTextRejects(g) == GenerateEnds(g, AfterError, <<>>)

\* lines 189-203: the record handed to blink.db.requests.create
RecordOf(requestId_, state) ==
    [ id |-> requestId_,
      user_id |-> userId,
      input_text |-> Join(ContentOf(UserMessagesOf(state.messages)), " "),
      parsed_task_type |-> state.requestSummary[1].service,
      skills_needed |-> state.requestSummary[1].service,
      location |-> state.requestSummary[1].location,
      timeline |-> state.requestSummary[1].timeline,
      budget |-> state.requestSummary[1].budget,
      estimated_hours |-> state.requestSummary[1].estimatedHours,
      flat_price |-> state.requestSummary[1].flatPrice,
      confirmed |-> TRUE,
      status |-> "pending" ]

\* lines 205-210: the request handed to onRequestComplete
CompletedRequest(requestId_, summary) ==
    [ id |-> requestId_, user_id |-> userId, status |-> "pending" ] @@ summary

\* lines 183-203 and 391-397: 'Find Providers' of the confirmation card, at time
\* `now`; the call awaits blink.db.requests.create
handleConfirmRequest(now) ==
    /\ assistant # <<>>
    /\ assistant.showConfirmation
    /\ assistant.requestSummary # <<>>
    /\ started < MaxCalls
    /\ started' = started + 1
    /\ confirming' = Append(confirming,
                            [ summary |-> summaries,
                              record |-> RecordOf("req_" \o ToString(now), assistant),
                              request |-> CompletedRequest("req_" \o ToString(now),
                                                           assistant.requestSummary[1]) ])
    /\ UNCHANGED << currentView, currentRequest, assistant, summaries, generating,
                    created, completions, outsideApp >>

\* lines 189-210: blink.db.requests.create resolves and onRequestComplete is
\* called
ConfirmResolves(c) ==
    /\ c \in 1..Len(confirming)
    /\ confirming' = RemoveAt(confirming, c)
    /\ created' = Append(created, confirming[c])
    /\ completions' = Append(completions, confirming[c])
    /\ onRequestComplete(confirming[c].request)
    /\ UNCHANGED << summaries, started, outsideApp >>

\* lines 211-213: blink.db.requests.create rejects
ConfirmRejects(c) ==
    /\ c \in 1..Len(confirming)
    /\ confirming' = RemoveAt(confirming, c)
    /\ UNCHANGED << currentView, currentRequest, assistant, summaries, started,
                    generating, created, completions, outsideApp >>

\* lines 216-224 and 398-405: 'Edit' of the confirmation card
handleEditRequest ==
    /\ assistant # <<>>
    /\ assistant.showConfirmation
    /\ assistant.requestSummary # <<>>
    /\ assistant' = [ assistant EXCEPT
                        !.showConfirmation = FALSE,
                        !.requestSummary = <<>>,
                        !.messages = Append(@, newMessage("What would you like to change about your request?",
                                                          "ai",
                                                          << "Change location", "Adjust budget",
                                                             "Different timeline" >>)) ]
    /\ UNCHANGED << currentView, currentRequest, generating, inFlight, outsideApp >>

AppNext ==
    \/ \E view \in { "user-dashboard", "provider-dashboard", "request" } : HomeButton(view)
    \/ \E from \in { "request", "provider-dashboard", "user-dashboard" } : BackHome(from)
    \/ onProviderSelect
    \/ BackToRequest
    \/ onBookingComplete
    \/ BackToMatches
    \/ \E t \in TypedValues : TypeValue(t)
    \/ SendValue
    \/ \E i \in ClickedStarters : handleQuickStart(i)
    \/ \E m \in 1..(3 * MaxCalls + 1), j \in ClickedOfMessage :
           handleSuggestionClick(m, j)
    \/ \E g \in 1..MaxCalls, text \in GeneratedTexts : GenerateTextResolves(g, text)
    \/ \E g \in 1..MaxCalls : GenerateTextRejects(g)
    \/ \E now \in DateNow : handleConfirmRequest(now)
    \/ \E c \in 1..MaxCalls : ConfirmResolves(c)
    \/ \E c \in 1..MaxCalls : ConfirmRejects(c)
    \/ handleEditRequest

AppSpec == Init /\ [][AppNext]_vars

(***************************************************************************)
(* ProviderMatches and BookingFlow (ProviderMatches.tsx lines 30-313 and   *)
(* 618-938), mounted with the request, the request id and the user of one  *)
(* completed dialogue.  The 'New Request' and 'Book Another Service'       *)
(* buttons reload the page and end the run.                                *)
(***************************************************************************)
MaxMatches == 2

MaxBookings == 2

\* the props request, requestId and user.id
requestProp == ValidObject

requestIdProp == "req_1"

\* what the actions of ProviderMatches and BookingFlow leave alone
outsideMatches == << flowVars, argument, returned, appVars >>

\* lines 90-115: the providers blink.ai.generateObject writes
GeneratedProviders ==
    << [ id |-> "1", name |-> "Ana Ruiz", bio |-> "Ten years of cleaning",
         skills |-> <<"cleaning">>, rating |-> 5, completedJobs |-> 120,
         hourlyRate |-> 40, location |-> "Brooklyn, NY" ],
       [ id |-> "2", name |-> "Ben Ode", bio |-> "Camera and editing",
         skills |-> <<"camera", "editing">>, rating |-> 4, completedJobs |-> 31,
         hourlyRate |-> 55, location |-> "Queens, NY" ] >>

ProviderObjects == { [ providers |-> GeneratedProviders ], [ providers |-> <<>> ] }

\* line 119: Math.random().toString(36).substr(2, 9) of the i-th provider; two
\* providers get different strings
RandomString(i) == <<"k3j9x0q1a", "z81mfp02c">>[i]

\* lines 117-120: every provider gets a new id
mockProvidersOf(object, now) ==
    [ i \in 1..Len(object.providers) |->
        With(object.providers[i], "id",
             "provider_" \o ToString(now) \o "_" \o RandomString(i)) ]

\* line 73: mockProviders.find(p => p.id === match.providerId), <<>> for undefined
find(mockProviders, providerId) ==
    IF \E i \in 1..Len(mockProviders) : mockProviders[i].id = providerId
    THEN << mockProviders[Lowest({ i \in 1..Len(mockProviders) :
                                    mockProviders[i].id = providerId })] >>
    ELSE <<>>

\* lines 72-76: the provider of a match with its score, nothing for a match
\* that names no provider
Scored(mockProviders, match) ==
    IF find(mockProviders, match.providerId) = <<>>
    THEN <<>>
    ELSE << With(find(mockProviders, match.providerId)[1], "matchScore", match.matchScore) >>

RECURSIVE MapFilter(_, _)
MapFilter(mockProviders, matches) ==
    IF matches = <<>>
    THEN <<>>
    ELSE Scored(mockProviders, matches[1]) \o MapFilter(mockProviders, Tail(matches))

\* x goes behind every element that does not sort after it
InsertByScore(sorted, x) ==
    SelectSeq(sorted, LAMBDA y : y.matchScore >= x.matchScore)
    \o <<x>>
    \o SelectSeq(sorted, LAMBDA y : y.matchScore < x.matchScore)

\* line 77: .sort((a, b) => b.matchScore - a.matchScore), a stable sort
RECURSIVE sortByScore(_)
sortByScore(list) ==
    IF list = <<>>
    THEN <<>>
    ELSE InsertByScore(sortByScore(SubSeq(list, 1, Len(list) - 1)), list[Len(list)])

\* line 78: .slice(0, 5)
slice(list, from, to) ==
    SubSeq(list, from + 1, IF to < Len(list) THEN to ELSE Len(list))

\* the matches in the order they came in
rankedProviders_Unsorted(mockProviders, matches) ==
    slice(MapFilter(mockProviders, matches), 0, 5)

\* lines 71-78
rankedProviders(mockProviders, matches) ==
    slice(sortByScore(MapFilter(mockProviders, matches)), 0, 5)

\* lines 46-68: the matches blink.ai.generateObject writes for the providers of
\* the prompt: their ids and one that names no provider, with two scores
IdsOf(mockProviders) == { mockProviders[i].id : i \in 1..Len(mockProviders) }

Match(providerId, matchScore) ==
    [ providerId |-> providerId, matchScore |-> matchScore, reasoning |-> "fits the request" ]

Matches(mockProviders) ==
    { Match(id, score) : id \in IdsOf(mockProviders) \cup { "provider_0_none" },
                         score \in { 60, 90 } }

RECURSIVE Lists(_, _)
Lists(S, n) ==
    IF n = 0
    THEN { <<>> }
    ELSE Lists(S, n - 1) \cup { Append(l, x) : l \in Lists(S, n - 1), x \in S }

\* a list of more matches than are shown
LongList(id) ==
    << Match(id, 60), Match(id, 90), Match("provider_0_none", 90),
       Match(id, 60), Match(id, 90), Match(id, 60), Match(id, 90) >>

\* the lists written while the call is outstanding
MatchLists(mockProviders) ==
    IF finding.pc = "generateObject"
    THEN Lists(Matches(mockProviders), MaxMatches)
         \cup { LongList(id) : id \in IdsOf(mockProviders) }
    ELSE {}

\* lines 645-648
timeSlots ==
    << "9:00 AM", "10:00 AM", "11:00 AM", "12:00 PM", "1:00 PM", "2:00 PM", "3:00 PM",
       "4:00 PM", "5:00 PM" >>

\* the part of s before and after the first c
Before(s, c) ==
    IF IndexesOf(c, s) = {} THEN s ELSE SubSeq(s, 1, Lowest(IndexesOf(c, s)) - 1)

After(s, c) ==
    IF IndexesOf(c, s) = {} THEN "" ELSE SubSeq(s, Lowest(IndexesOf(c, s)) + 1, Len(s))

DigitValue(c) == CHOOSE d \in 0..9 : CharAt(Digits, d + 1) = c

\* parseInt of a string of digits
RECURSIVE parseInt(_)
parseInt(s) ==
    IF s = ""
    THEN 0
    ELSE 10 * parseInt(SubSeq(s, 1, Len(s) - 1)) + DigitValue(CharAt(s, Len(s)))

\* lines 659-663
HourOf(hour, period) ==
    CASE period = "PM" /\ hour # 12 -> hour + 12
      [] period = "AM" /\ hour = 12 -> 0
      [] OTHER -> hour

\* lines 658-665 and 672: the date with the hour and the minute of the slot
scheduledDateTime(selectedDate, selectedTime) ==
    [ date |-> selectedDate,
      hour |-> HourOf(parseInt(Before(Before(selectedTime, " "), ":")),
                      After(selectedTime, " ")),
      minute |-> parseInt(After(Before(selectedTime, " "), ":")) ]

\* line 650, for a duration of whole hours
totalPrice(provider) ==
    provider.hourlyRate * parseInt(Before(requestProp["duration"], " "))

\* lines 667-676: the record handed to blink.db.bookings.create at time `now`
BookingRecord(now, provider, state) ==
    [ id |-> "booking_" \o ToString(now),
      requestId |-> requestIdProp,
      providerId |-> provider.id,
      userId |-> userId,
      scheduledTime |-> scheduledDateTime(state.selectedDate[1], state.selectedTime),
      finalPrice |-> totalPrice(provider),
      status |-> "confirmed",
      paymentStatus |-> "completed" ]

\* the days picked in the calendar, where today is disabled (<<>>: the picked
\* day is clicked again), and the slots clicked
PickedDates == { <<>>, <<"2026-01-15">> }

ClickedTimes == { 4 }

\* the card clicked in the list
ClickedCards == { 1 }

\* lines 639-643: the state of a BookingFlow when it mounts
FreshBooking ==
    [ selectedDate |-> <<"2026-01-14">>, selectedTime |-> "", notes |-> "",
      isBooking |-> FALSE, bookingComplete |-> FALSE ]

\* lines 36-38 and 88-121: generateMockProviders resolves at time `now`, the
\* earliest moment of a run
MockProvidersResolve(object, now) ==
    /\ finding.pc = "generateMockProviders"
    /\ finding' = [ finding EXCEPT !.pc = "generateObject",
                                   !.mockProviders = mockProvidersOf(object, now) ]
    /\ UNCHANGED << providerMatches, bookingFlow, bookingHandlers, bookings, updates,
                    outsideMatches >>

\* lines 81-85: a rejected call ends in catch and finally
FindingFails(pc) ==
    /\ finding.pc = pc
    /\ finding' = [ finding EXCEPT !.pc = "failed" ]
    /\ providerMatches' = [ providerMatches EXCEPT !.loading = FALSE ]
    /\ UNCHANGED << bookingFlow, bookingHandlers, bookings, updates, outsideMatches >>

MockProvidersReject == FindingFails("generateMockProviders")

\* lines 46-85: blink.ai.generateObject resolves with the matches
RankingResolves(matches) ==
    /\ finding.pc = "generateObject"
    /\ finding' = [ finding EXCEPT !.pc = "done" ]
    /\ providerMatches' =
         [ providerMatches EXCEPT
             !.providers = rankedProviders(finding.mockProviders, matches),
             !.loading = FALSE ]
    /\ UNCHANGED << bookingFlow, bookingHandlers, bookings, updates, outsideMatches >>

RankingRejects == FindingFails("generateObject")

\* lines 123-138 and 225-230: a click on the i-th card mounts the BookingFlow
handleSelectProvider(i) ==
    /\ ~providerMatches.loading
    /\ ~providerMatches.showBooking
    /\ i \in 1..Len(providerMatches.providers)
    /\ providerMatches' =
         [ providerMatches EXCEPT !.selectedProvider = << providerMatches.providers[i] >>,
                                  !.showBooking = TRUE ]
    /\ bookingFlow' = << FreshBooking >>
    /\ UNCHANGED << finding, bookingHandlers, bookings, updates, outsideMatches >>

\* lines 135, 724 and 738: onBack unmounts the BookingFlow; what its calls set
\* afterwards has no effect
BookingBack ==
    /\ bookingFlow # <<>>
    /\ providerMatches' = [ providerMatches EXCEPT !.showBooking = FALSE ]
    /\ bookingFlow' = <<>>
    /\ bookingHandlers' =
         [ h \in 1..Len(bookingHandlers) |-> [ bookingHandlers[h] EXCEPT !.mounted = FALSE ] ]
    /\ UNCHANGED << finding, bookings, updates, outsideMatches >>

\* lines 793-799: a day is picked in the calendar
SelectDate(date) ==
    /\ bookingFlow # <<>>
    /\ ~bookingFlow[1].bookingComplete
    /\ date = <<>> => bookingFlow[1].selectedDate \in PickedDates \ { <<>> }
    /\ bookingFlow' = << [ bookingFlow[1] EXCEPT !.selectedDate = date ] >>
    /\ UNCHANGED << providerMatches, finding, bookingHandlers, bookings, updates,
                    outsideMatches >>

\* lines 813-822: a slot is clicked
SelectTime(i) ==
    /\ bookingFlow # <<>>
    /\ ~bookingFlow[1].bookingComplete
    /\ bookingFlow' = << [ bookingFlow[1] EXCEPT !.selectedTime = timeSlots[i] ] >>
    /\ UNCHANGED << providerMatches, finding, bookingHandlers, bookings, updates,
                    outsideMatches >>

\* lines 652-666 and 884-888: Confirm & Pay, pressed at time `now`, starts the call
\* of blink.db.bookings.create
handleBooking(now) ==
    /\ bookingFlow # <<>>
    /\ ~bookingFlow[1].bookingComplete
    /\ bookingFlow[1].selectedDate # <<>>
    /\ bookingFlow[1].selectedTime # ""
    /\ ~bookingFlow[1].isBooking
    /\ Len(bookings) + Len(bookingHandlers) < MaxBookings
    /\ bookingFlow' = << [ bookingFlow[1] EXCEPT !.isBooking = TRUE ] >>
    /\ bookingHandlers' =
         Append(bookingHandlers,
                [ pc |-> "create", mounted |-> TRUE,
                  booking |-> BookingRecord(now, providerMatches.selectedProvider[1],
                                            bookingFlow[1]) ])
    /\ UNCHANGED << providerMatches, finding, bookings, updates, outsideMatches >>

\* lines 667-680: the booking is stored and the request is updated next
BookingCreateResolves(h) ==
    /\ h \in 1..Len(bookingHandlers)
    /\ bookingHandlers[h].pc = "create"
    /\ bookings' = Append(bookings, bookingHandlers[h].booking)
    /\ bookingHandlers' = [ bookingHandlers EXCEPT ![h].pc = "update" ]
    /\ UNCHANGED << providerMatches, bookingFlow, finding, updates, outsideMatches >>

\* lines 685-689: catch and finally; the state of an unmounted BookingFlow is
\* not set
HandlerEnds(h, complete) ==
    /\ bookingFlow' =
         IF bookingHandlers[h].mounted
         THEN << [ bookingFlow[1] EXCEPT
                     !.isBooking = FALSE,
                     !.bookingComplete = complete \/ bookingFlow[1].bookingComplete ] >>
         ELSE bookingFlow
    /\ bookingHandlers' = RemoveAt(bookingHandlers, h)
    /\ UNCHANGED << providerMatches, finding, outsideMatches >>

BookingCreateRejects(h) ==
    /\ h \in 1..Len(bookingHandlers)
    /\ bookingHandlers[h].pc = "create"
    /\ HandlerEnds(h, FALSE)
    /\ UNCHANGED << bookings, updates >>

\* lines 679-684: blink.db.requests.update resolves, then setBookingComplete(true)
RequestUpdateResolves(h) ==
    /\ h \in 1..Len(bookingHandlers)
    /\ bookingHandlers[h].pc = "update"
    /\ updates' = Append(updates, [ id |-> bookingHandlers[h].booking.requestId,
                                    status |-> "booked",
                                    finalPrice |-> bookingHandlers[h].booking.finalPrice ])
    /\ HandlerEnds(h, TRUE)
    /\ UNCHANGED bookings

RequestUpdateRejects(h) ==
    /\ h \in 1..Len(bookingHandlers)
    /\ bookingHandlers[h].pc = "update"
    /\ HandlerEnds(h, FALSE)
    /\ UNCHANGED << bookings, updates >>

\* Date.now() of a press of Confirm & Pay: after the mount, and later the more
\* bookings are stored
PressedAt == Highest(DateNow) + Len(bookings)

MatchNext ==
    \/ \E object \in ProviderObjects : MockProvidersResolve(object, Lowest(DateNow))
    \/ MockProvidersReject
    \/ \E matches \in MatchLists(finding.mockProviders) : RankingResolves(matches)
    \/ RankingRejects
    \/ \E i \in ClickedCards : handleSelectProvider(i)
    \/ BookingBack
    \/ \E date \in PickedDates : SelectDate(date)
    \/ \E i \in ClickedTimes : SelectTime(i)
    \/ \E now \in { PressedAt } : handleBooking(now)
    \/ \E h \in 1..MaxBookings : BookingCreateResolves(h)
    \/ \E h \in 1..MaxBookings : BookingCreateRejects(h)
    \/ \E h \in 1..MaxBookings : RequestUpdateResolves(h)
    \/ \E h \in 1..MaxBookings : RequestUpdateRejects(h)

MatchSpec == Init /\ [][MatchNext]_vars

(***************************************************************************)
(* The RequestFlow variant that keeps the field asked in the state         *)
(* currentQuestion (the second component of UserDashboard.tsx).  Its       *)
(* functions carry the suffix CQ where the name is taken above.            *)
(***************************************************************************)
\* lines 409-414
exampleRequests ==
    << "I need help taking out my trash", "Looking for a photographer",
       "Need someone to clean my apartment", "Help me set up my WiFi" >>

\* lines 629-639: the rules in source order
TaskTypeRulesCQ ==
    << [ keywords |-> {"trash", "garbage"},            taskType |-> "Trash Removal" ],
       [ keywords |-> {"photo", "photographer"},       taskType |-> "Photography" ],
       [ keywords |-> {"clean", "cleaning"},           taskType |-> "Cleaning" ],
       [ keywords |-> {"wifi", "internet", "network"}, taskType |-> "Tech Support" ],
       [ keywords |-> {"design", "logo"},              taskType |-> "Graphic Design" ],
       [ keywords |-> {"move", "moving"},              taskType |-> "Moving Services" ],
       [ keywords |-> {"repair", "fix"},               taskType |-> "Repair Services" ] >>

FirstRuleCQ(lowerText) ==
    { k \in 1..Len(TaskTypeRulesCQ) :
        /\ \E kw \in TaskTypeRulesCQ[k].keywords : includes(lowerText, kw)
        /\ \A j \in 1..(k - 1) :
             \A kw \in TaskTypeRulesCQ[j].keywords : ~includes(lowerText, kw) }

extractTaskTypeCQ(text) ==
    IF FirstRuleCQ(toLowerCase(text)) = {}
    THEN "General Service"
    ELSE TaskTypeRulesCQ[CHOOSE k \in FirstRuleCQ(toLowerCase(text)) : TRUE].taskType

\* lines 646-655: <<>> for null
getTaskSpecificQuestionCQ(taskType) ==
    CASE taskType = "Trash Removal" ->
           <<"What type of items need to be removed? (e.g., \"household trash\", \"furniture\", \"yard waste\")">>
      [] taskType = "Photography" ->
           <<"What type of photography do you need? (e.g., \"portrait session\", \"event photography\", \"product photos\")">>
      [] taskType = "Cleaning" ->
           <<"What type of cleaning service? (e.g., \"deep clean\", \"regular maintenance\", \"move-out cleaning\")">>
      [] taskType = "Tech Support" ->
           <<"What specific tech issue needs help? (e.g., \"WiFi setup\", \"computer repair\", \"smart home installation\")">>
      [] taskType = "Moving Services" ->
           <<"What size move is this? (e.g., \"studio apartment\", \"3-bedroom house\", \"just a few items\")">>
      [] OTHER -> <<>>

\* lines 657-671
hasTaskSpecificInfo(text, taskType) ==
    CASE taskType = "Trash Removal" ->
           \E kw \in {"furniture", "household", "yard"} : includes(toLowerCase(text), kw)
      [] taskType = "Photography" ->
           \E kw \in {"wedding", "portrait", "event"} : includes(toLowerCase(text), kw)
      [] taskType = "Cleaning" ->
           \E kw \in {"deep", "regular", "move-out"} : includes(toLowerCase(text), kw)
      [] OTHER -> FALSE

\* line 577: !data.location || data.location === 'Not specified'
LocationUnset(data) == ~Truthy(data, "location") \/ data["location"] = "Not specified"

\* lines 578-581
MentionsLocation(originalText) ==
    \E kw \in {"location", "address", "home", "apartment"} :
        includes(toLowerCase(originalText), kw)

\* line 587: originalText.match(/\$\d+/)
MentionsBudget(originalText) == FirstMatchStart(BudgetAmount, originalText) # 0

\* lines 593-598
MentionsTimeline(originalText) ==
    \E kw \in {"today", "tomorrow", "week", "month", "urgent", "asap"} :
        includes(toLowerCase(originalText), kw)

\* lines 604-609
NeedsSpecific(data, originalText) ==
    /\ Truthy(data, "taskType")
    /\ ~HasSpecific(data)
    /\ getTaskSpecificQuestionCQ(data["taskType"]) # <<>>
    /\ ~hasTaskSpecificInfo(originalText, data["taskType"])

\* lines 574-612
getMissingInfoCQ(data, originalText) ==
    (IF LocationUnset(data) /\ ~MentionsLocation(originalText)
     THEN <<"location">> ELSE <<>>)
    \o (IF ~Truthy(data, "budget") /\ ~MentionsBudget(originalText)
        THEN <<"budget">> ELSE <<>>)
    \o (IF ~Truthy(data, "timeline") /\ ~MentionsTimeline(originalText)
        THEN <<"timeline">> ELSE <<>>)
    \o (IF NeedsSpecific(data, originalText) THEN <<"specific">> ELSE <<>>)

\* lines 614-627: the task-specific question is that of the scopingData of the
\* render that submitted
getNextQuestionCQ(questionType, scopingData_) ==
    CASE questionType = "specific" /\ Truthy(scopingData_, "taskType") ->
           OrElse(getTaskSpecificQuestionCQ(scopingData_["taskType"]), <<"">>)[1]
      [] questionType = "location" ->
           "To find the best providers near you, where are you located? (e.g., 'Downtown Seattle' or 'Brooklyn, NY')"
      [] questionType = "budget" ->
           "What's your budget for this service? You can say something like '$50-100' or 'around $75'."
      [] questionType = "timeline" ->
           "When would you like this done? (e.g., 'today', 'this weekend', 'next week', 'flexible')"
      [] OTHER -> ""

\* lines 522-537 and 555-570: nextQuestion is <<>> for null
ResponseCQ(prefix, done, updatedData, missingInfo, scopingData_) ==
    IF Len(missingInfo) > 0
    THEN [ message |-> prefix \o getNextQuestionCQ(missingInfo[1], scopingData_),
           updatedData |-> updatedData,
           nextQuestion |-> <<missingInfo[1]>>,
           isComplete |-> FALSE ]
    ELSE [ message |-> done,
           updatedData |-> updatedData,
           nextQuestion |-> <<>>,
           isComplete |-> TRUE ]

\* lines 515-539: the first message sets the task type and the details only
FirstTurnCQ(userInput, updatedData, scopingData_) ==
    ResponseCQ("Got it! I understand you need help with "
                  \o toLowerCase(updatedData["taskType"]) \o ". ",
               "Perfect! I have all the details I need. Let me find the best providers for your "
                  \o toLowerCase(updatedData["taskType"])
                  \o " request. This should take just a moment...",
               updatedData, getMissingInfoCQ(updatedData, userInput), scopingData_)

\* lines 553-571
LaterTurnCQ(updatedData, scopingData_) ==
    ResponseCQ("Great! ",
               "Excellent! I now have all the information needed to find you the perfect provider. Let me search for qualified "
                  \o (IF "taskType" \in DOMAIN updatedData
                      THEN toLowerCase(updatedData["taskType"]) ELSE "undefined")
                  \o " professionals in your area...",
               updatedData,
               getMissingInfoCQ(updatedData, OrElse(Prop(updatedData, "details"), <<"">>)[1]),
               scopingData_)

\* lines 542-550 and 641-644: the same statements and the same budget pattern as
\* in RequestFlow.tsx
StoreAnswerCQ(currentQuestion, userInput, updatedData) ==
    StoreAnswer(currentQuestion, userInput, updatedData)

\* lines 510-572, with the messages and the currentQuestion of the render that
\* submitted; currentQuestion is <<>> for null
processUserInputCQ(userInput, currentData, messagesLength, currentQuestion) ==
    IF messagesLength = 0
    THEN FirstTurnCQ(userInput,
                     With(With(currentData, "taskType", extractTaskTypeCQ(userInput)),
                          "details", userInput),
                     currentData)
    ELSE LaterTurnCQ(StoreAnswerCQ(currentQuestion, userInput, currentData), currentData)

(***************************************************************************)
(* The functions of the component applied on their own: the extractors to  *)
(* utterances of up to MaxWords words, the question and suggestion         *)
(* generators to every field and task type, generateFinalRequest's merge   *)
(* to scoped data and collaborator objects.                                *)
(***************************************************************************)
MaxWords == 2

Words ==
    { "Garbage", "PHOTOS", "clean", "WiFi", "logo", "moving", "fix", "ASAP",
      "Tomorrow", "this weekend", "Deep" }

\* the utterances of at most n words
RECURSIVE Phrases(_)
Phrases(n) ==
    IF n = 0
    THEN { "" }
    ELSE Phrases(n - 1)
         \cup { IF p = "" THEN w ELSE p \o " " \o w : p \in Phrases(n - 1), w \in Words }

Utterances == Phrases(MaxWords)

\* the values extractTaskType returns
TaskTypes ==
    { "Trash Removal", "Photography", "Cleaning", "Tech Support", "Graphic Design",
      "Moving Services", "Repair Services", "General Service" }

\* the values getMissingInfo pushes
QuestionTypes == { "location", "budget", "timeline", "specific" }

\* scoped data with and without a task type and a location
ScopedData ==
    { <<>>,
      [ taskType |-> "Photography" ],
      [ location |-> "Brooklyn, NY" ],
      [ taskType |-> "Cleaning", location |-> "Brooklyn, NY", budget |-> "$50-100",
        timeline |-> "Today" ] }

\* an object of the collaborator that echoes neither task type nor location
ObjectWithoutEcho ==
    [ skills |-> <<"mop">>, duration |-> "1 hour", suggestedPrice |-> 80,
      description |-> "Another request" ]

\* first utterances typed into the variant that keeps currentQuestion: its
\* examples, and requests that mention a place, an amount or a time
Requests ==
    { exampleRequests[i] : i \in 1..Len(exampleRequests) }
    \cup { "Fix the sink at home this week for $50",
           "Deep clean of my apartment for $80",
           "Looking for a photographer next week",
           "Fix my sink" }

Arguments ==
    { [ utterance |-> u ] : u \in Utterances }
    \cup { [ request |-> u ] : u \in Requests }
    \cup { [ questionType |-> q, taskType |-> t ] :
              q \in QuestionTypes, t \in { <<>> } \cup { <<c>> : c \in TaskTypes } }
    \cup { [ data |-> d, object |-> o ] :
              d \in ScopedData, o \in GeneratedObjects \cup { ObjectWithoutEcho } }

FunctionInit ==
    /\ Mounted
    /\ argument \in { <<a>> : a \in Arguments }
    /\ returned = <<>>
    /\ AppMounted
    /\ MatchesMounted

\* function fn applied to the argument, or to the argument and then to the
\* answers that followed the questions `asks`, returned value
ReturnsAfter(fn, value, asks) ==
    /\ returned' = << [ fn |-> fn, value |-> value, asks |-> asks ] >>
    /\ UNCHANGED << inputText, messages, isProcessing, scopingData, isComplete,
                    parsedRequest, requestId, showWelcome, welcomeTimer, handlers,
                    requests, responses, calls, replies, argument,
                    appVars, matchVars >>

\* function fn is applied to the argument, to which nothing was applied yet
Returns(fn, value) ==
    /\ returned = <<>>
    /\ ReturnsAfter(fn, value, <<>>)

\* what the user answers to a question
Answers == { "Brooklyn, NY", "Tomorrow for $50-100" }

IsUtterance == "utterance" \in DOMAIN argument[1]

AppliedToCQ == returned # <<>> /\ returned[1].fn = "processUserInputCQ"

IsQuestion == "questionType" \in DOMAIN argument[1]

IsMerge == "object" \in DOMAIN argument[1]

IsRequest == "request" \in DOMAIN argument[1]

CallExtractTaskType ==
    /\ IsUtterance
    /\ Returns("extractTaskType", extractTaskType(argument[1].utterance))

CallExtractTimeline ==
    /\ IsUtterance
    /\ Returns("extractTimeline", extractTimeline(argument[1].utterance))

\* processUserInput on a first utterance, before or after the welcome message
CallProcessUserInput(messagesLength) ==
    /\ IsUtterance
    /\ ~IsBlank(argument[1].utterance)
    /\ Returns("processUserInput",
               processUserInput(argument[1].utterance, <<>>, messagesLength))

\* processUserInput on an answer to the question of the turn before, with the
\* scopingData that turn set (lines 145-146) and its messages on the screen
CallProcessUserInputAgain(answer) ==
    /\ returned # <<>>
    /\ returned[1].fn = "processUserInput"
    /\ ~returned[1].value.isComplete
    /\ ReturnsAfter("processUserInput",
                    processUserInput(answer, returned[1].value.updatedData, 2),
                    Append(returned[1].asks, returned[1].value.asked))

CallGetNextQuestion ==
    /\ IsQuestion
    /\ Returns("getNextQuestion",
               getNextQuestion(argument[1].questionType, argument[1].taskType))

CallGetQuestionSuggestions ==
    /\ IsQuestion
    /\ Returns("getQuestionSuggestions",
               getQuestionSuggestions(argument[1].questionType, argument[1].taskType))

CallGetTaskSpecificQuestion ==
    /\ IsQuestion
    /\ Returns("getTaskSpecificQuestion", getTaskSpecificQuestion(argument[1].taskType))

CallGetTaskSpecificSuggestions ==
    /\ IsQuestion
    /\ Returns("getTaskSpecificSuggestions",
               getTaskSpecificSuggestions(argument[1].taskType))

\* generateFinalRequest when blink.ai.generateObject resolves with the object
CallGenerateFinalRequest ==
    /\ IsMerge
    /\ Returns("generateFinalRequest",
               MergeFinalRequest(argument[1].data, argument[1].object))

\* processUserInput of the currentQuestion variant on a first utterance: no
\* message on the screen, empty scopingData, currentQuestion null
CallProcessUserInputCQ ==
    /\ IsRequest
    /\ Returns("processUserInputCQ",
               processUserInputCQ(argument[1].request, <<>>, 0, <<>>))

\* and on the answer to the question of the turn before, with the scopingData
\* and the currentQuestion that turn set (lines 476-477)
CallProcessUserInputCQAgain(answer) ==
    /\ AppliedToCQ
    /\ ~returned[1].value.isComplete
    /\ ReturnsAfter("processUserInputCQ",
                    processUserInputCQ(answer, returned[1].value.updatedData, 2,
                                       returned[1].value.nextQuestion),
                    Append(returned[1].asks, returned[1].value.nextQuestion))

FunctionNext ==
    \/ CallProcessUserInputCQ
    \/ \E answer \in Answers : CallProcessUserInputCQAgain(answer)
    \/ CallExtractTaskType
    \/ CallExtractTimeline
    \/ \E messagesLength \in 0..1 : CallProcessUserInput(messagesLength)
    \/ \E answer \in Answers : CallProcessUserInputAgain(answer)
    \/ CallGetNextQuestion
    \/ CallGetQuestionSuggestions
    \/ CallGetTaskSpecificQuestion
    \/ CallGetTaskSpecificSuggestions
    \/ CallGenerateFinalRequest

FunctionSpec == FunctionInit /\ [][FunctionNext]_vars

(***************************************************************************)
(* What the claims speak of.                                               *)
(***************************************************************************)
FieldOrder == << "location", "budget", "timeline", "specific" >>

\* the slot of a field as an optional value: set when the property is present
SlotOf(data, f) ==
    IF f = "specific"
    THEN IF "additionalInfo" \in DOMAIN data
         THEN Prop(data["additionalInfo"], "specific")
         ELSE <<>>
    ELSE Prop(data, f)

\* the task types with a task-specific question
TypesWithQuestion ==
    { "Trash Removal", "Photography", "Cleaning", "Tech Support", "Moving Services",
      "Graphic Design" }

TypesWithoutQuestion == { "Repair Services", "General Service" }

CompleteCondition(data) ==
    /\ SlotOf(data, "location") # <<>>
    /\ SlotOf(data, "budget") # <<>>
    /\ SlotOf(data, "timeline") # <<>>
    /\ \/ SlotOf(data, "specific") # <<>>
       \/ Prop(data, "taskType") \in { <<t>> : t \in TypesWithoutQuestion }

\* C1: a turn reports isComplete = true, and the component is in state Complete,
\* if and only if location, budget and timeline are set in the updated slots and
\* the task-specific slot is set or the task type is Repair Services or General
\* Service.
C1_CompleteIffSlotsSet ==
    /\ \A i \in 1..Len(responses) :
         responses[i].isComplete <=> CompleteCondition(responses[i].updatedData)
    /\ isComplete <=> CompleteCondition(scopingData)

\* a turn completed with the task-specific slot answered, after turns that asked
C1_Witness ==
    \E i, j \in 1..Len(responses) :
        /\ ~responses[i].isComplete
        /\ responses[j].isComplete
        /\ SlotOf(responses[j].updatedData, "specific") # <<>>

\* C2: while a handleSubmit is running, isProcessing is true, the text input, the
\* send button and every suggestion button are disabled and the quick starters
\* are not shown; at most one handleSubmit runs at a time, and the slots its
\* closure captured are the current ones until it writes them.
C2_OneTurnInFlight ==
    /\ Len(handlers) <= 1
    /\ handlers # <<>> =>
         /\ isProcessing
         /\ ~InputEnabled
         /\ ~QuickStartersShown
         /\ \A m \in 1..Len(messages) : \A j \in 1..Len(messages[m].suggestions) :
              ~SuggestionEnabled(m, j)
    /\ \A h \in 1..Len(handlers) :
         handlers[h].pc = "delay" => handlers[h].currentData = scopingData

\* a turn waits for the collaborator while suggestion buttons are on the screen
C2_Witness ==
    /\ handlers # <<>>
    /\ handlers[1].pc = "generateObject"
    /\ \E m \in 1..Len(messages) : Len(messages[m].suggestions) > 0

\* the stored budget is the raw answer or a "$..." part of it
BudgetOfAnswer(stored, userInput) ==
    \/ stored = <<userInput>>
    \/ /\ stored # <<>>
       /\ CharAt(stored[1], 1) = "$"
       /\ includes(userInput, stored[1])

\* a later turn stores the raw answer under the field it answers
StoredVerbatim(r) ==
    r.branch = "subsequent" /\ r.currentQuestion # <<>> =>
        IF r.currentQuestion = <<"budget">>
        THEN BudgetOfAnswer(SlotOf(r.updatedData, "budget"), r.userInput)
        ELSE SlotOf(r.updatedData, r.currentQuestion[1]) = <<r.userInput>>

\* C3: no step changes a slot (location, budget, timeline, specific) that is set,
\* and a later turn stores the raw answer, but for budget, which may store the
\* budget extractor's match.
C3_SlotsKeptOnceSet ==
    [][ /\ \A f \in { FieldOrder[k] : k \in 1..Len(FieldOrder) } :
             SlotOf(scopingData, f) # <<>> => SlotOf(scopingData', f) = SlotOf(scopingData, f)
        /\ Len(responses') > Len(responses) => StoredVerbatim(Last(responses')) ]_vars

\* the budget answer was refined by the extractor, and a later turn kept it
C3_Witness ==
    \E i, j \in 1..Len(responses) :
        /\ i < j
        /\ responses[i].currentQuestion = <<"budget">>
        /\ SlotOf(responses[i].updatedData, "budget") # <<responses[i].userInput>>
        /\ SlotOf(responses[j].updatedData, "budget") = SlotOf(responses[i].updatedData, "budget")

\* C4: the first-message branch is taken by the first turn and by no other, and
\* taskType and details stay what the first turn made them.
C4_FirstTurnOnce ==
    /\ \A i \in 1..Len(responses) :
         /\ responses[i].branch = "first" <=> i = 1
         /\ Prop(responses[i].updatedData, "taskType") = Prop(responses[1].updatedData, "taskType")
         /\ Prop(responses[i].updatedData, "details") = <<responses[1].userInput>>
    /\ responses # <<>> =>
         /\ Prop(scopingData, "taskType") = Prop(responses[1].updatedData, "taskType")
         /\ Prop(scopingData, "details") = <<responses[1].userInput>>

\* the first submission came before the welcome timeout, which replaced the
\* message list, and the second utterance names another task type
C4_Witness ==
    /\ Len(responses) >= 2
    /\ messages[2].type = "ai"
    /\ extractTaskType(responses[2].userInput) # responses[1].updatedData["taskType"]

Unmet(data, f) ==
    IF f = "specific"
    THEN /\ SlotOf(data, f) = <<>>
         /\ Prop(data, "taskType") \in { <<t>> : t \in TypesWithQuestion }
    ELSE SlotOf(data, f) = <<>>

ExpectedMissing(data) == SelectSeq(FieldOrder, LAMBDA f : Unmet(data, f))

\* the text before the question in the message of an asking turn
AskingPrefix(r) ==
    IF r.branch = "first"
    THEN "Perfect! I understand you need " \o toLowerCase(r.updatedData["taskType"]) \o ". "
    ELSE "Got it! "

AsksHeadOf(r, missing) ==
    /\ missing # <<>>
    /\ r.asked = <<missing[1]>>
    /\ r.message = AskingPrefix(r) \o getNextQuestion(missing[1], Prop(r.updatedData, "taskType"))
    /\ r.suggestions = getQuestionSuggestions(missing[1], Prop(r.updatedData, "taskType"))

\* C5: getMissingInfo lists the unmet fields in the order location, budget,
\* timeline, specific, and a turn that does not complete emits the question and
\* the suggestions of the first of them, computed on the updated slots.
C5_AsksHeadOfMissing ==
    /\ \A i \in 1..Len(responses) :
         /\ getMissingInfo(responses[i].updatedData) = ExpectedMissing(responses[i].updatedData)
         /\ ~responses[i].isComplete =>
              AsksHeadOf(responses[i], ExpectedMissing(responses[i].updatedData))
    /\ handlers = <<>> /\ responses # <<>> =>
         Last(messages) \in { AiMessage(Last(responses)), errorMessage }

\* the first utterance gave the location, so the first question is the budget's
C5_Witness ==
    /\ Len(responses) >= 2
    /\ responses[1].asked = <<"budget">>
    /\ responses[2].asked = <<"timeline">>

Rank(f) == CHOOSE k \in 1..Len(FieldOrder) : FieldOrder[k] = f

\* C6: the fields asked follow the priority order strictly (none is asked twice,
\* none after a field of lower priority), a field is never asked once its slot
\* was set, and no turn after a complete one asks.
C6_NoFieldAskedAgain ==
    \A i, j \in 1..Len(responses) :
        i < j =>
            /\ responses[i].isComplete => responses[j].isComplete
            /\ responses[i].asked # <<>> /\ responses[j].asked # <<>> =>
                 Rank(responses[i].asked[1]) < Rank(responses[j].asked[1])
            /\ responses[j].asked # <<>> =>
                 SlotOf(responses[i].updatedData, responses[j].asked[1]) = <<>>

\* all four questions were asked, one per turn, and the dialogue completed
C6_Witness ==
    /\ Len(responses) >= 5
    /\ responses[4].asked = <<"specific">>
    /\ responses[5].isComplete

\* an outbound call was rejected in this step
RejectedStep == Len(replies') > Len(replies) /\ Last(replies').outcome = "rejected"

\* C7: when generateObject or create fails, the component stays complete, the
\* error message is the last message and ProviderMatches is not rendered; it is
\* rendered only with a ParsedRequest and the id of a record that was created.
C7_FailureStaysComplete ==
    /\ [][ RejectedStep =>
             /\ isComplete'
             /\ Last(messages') = errorMessage
             /\ ~ShowsProviderMatches'
             /\ requestId' = requestId
             /\ requests' = requests ]_vars
    /\ [](ShowsProviderMatches =>
             /\ parsedRequest # <<>>
             /\ requests # <<>>
             /\ requestId = Prop(Last(requests), "id"))

\* the request was generated and stored in the state, and create failed
C7_Witness ==
    /\ handlers = <<>>
    /\ isComplete
    /\ Last(messages) = errorMessage
    /\ parsedRequest # <<>>
    /\ requestId = <<>>
    /\ Last(replies).api = "create"

\* generateObject resolved in this step with an object that violates the schema
SchemaViolationStep ==
    /\ Len(replies') > Len(replies)
    /\ Last(replies').api = "generateObject"
    /\ Last(replies').outcome = "resolved"
    /\ ~ConformsToSchema(Last(replies').value[1])

\* C8: when generateObject resolves with an object that violates the schema, the
\* component stays complete, stores no ParsedRequest, does not call create and
\* appends the error message.
C8_SchemaViolationSurfaced ==
    [][ SchemaViolationStep =>
          /\ isComplete'
          /\ parsedRequest' = parsedRequest
          /\ calls' = calls
          /\ Last(messages') = errorMessage ]_vars

\* finalization failed: complete, no turn running, nothing handed over
FinalizationFailed == isComplete /\ handlers = <<>> /\ ~ShowsProviderMatches

\* C9: after a failed finalization a suggestion button is enabled; a turn started
\* in Complete leaves the slots unchanged and calls generateObject again, whose
\* object gives the ParsedRequest; generateObject is called once per turn at most.
C9_RetryByUserOnly ==
    /\ [](FinalizationFailed =>
            \E m \in 1..Len(messages) : \E j \in 1..Len(messages[m].suggestions) :
                SuggestionEnabled(m, j))
    /\ [][ isComplete /\ Len(responses') > Len(responses) =>
             /\ scopingData' = scopingData
             /\ Last(responses').isComplete
             /\ calls' = Append(calls, [ api |-> "generateObject",
                                         turn |-> Last(responses').turn ]) ]_vars
    /\ [][ /\ Len(replies') > Len(replies)
           /\ Last(replies').api = "generateObject"
           /\ Last(replies').outcome = "resolved"
           => parsedRequest' = <<MergeFinalRequest(scopingData, Last(replies').value[1])>> ]_vars
    /\ [](\A i, j \in 1..Len(calls) :
            i < j /\ calls[i].api = "generateObject" /\ calls[j].api = "generateObject"
              => calls[i].turn < calls[j].turn)

\* generateObject was rejected, the user retried, and the request was handed over
C9_Witness ==
    /\ ShowsProviderMatches
    /\ \E i \in 1..Len(replies) :
         replies[i].api = "generateObject" /\ replies[i].outcome = "rejected"

\* C10: at most one request record is created, ProviderMatches is rendered with
\* exactly one, the only outbound calls are generateObject and create, and each
\* create follows a generateObject of the same turn that resolved.
C10_OneRequestRecord ==
    /\ Len(requests) <= 1
    /\ ShowsProviderMatches => Len(requests) = 1
    /\ \A i \in 1..Len(calls) :
         /\ calls[i].api \in { "generateObject", "create" }
         /\ calls[i].api = "create" =>
              /\ i > 1
              /\ calls[i - 1] = [ api |-> "generateObject", turn |-> calls[i].turn ]
              /\ \E k \in 1..Len(replies) :
                   /\ replies[k].api = "generateObject"
                   /\ replies[k].turn = calls[i].turn
                   /\ replies[k].outcome = "resolved"

\* a create failed, the user retried, and the retry's create stored the record
C10_Witness ==
    /\ Len(requests) = 1
    /\ \E i \in 1..Len(replies) :
         replies[i].api = "create" /\ replies[i].outcome = "rejected"

\* the generateObject calls of one turn
FinalizationsOf(turn) ==
    { i \in 1..Len(calls) : calls[i].api = "generateObject" /\ calls[i].turn = turn }

\* nothing but a task type with a follow-up question is derived from the utterance
OnlyTaskTypeDerived(userInput) ==
    /\ extractTaskType(userInput) \in TypesWithQuestion
    /\ extractLocation(userInput) = <<>>
    /\ extractBudget(userInput) = <<>>
    /\ extractTimeline(userInput) = <<>>

\* C11: after a first utterance from which only a task type with a follow-up
\* question is derived, turns 1 to 4 ask location, budget, timeline and the
\* task-specific question in that order, and turn 5, which answers the last,
\* completes and calls generateObject exactly once.
C11_AsksAllFourThenFinalizes ==
    responses # <<>> /\ OnlyTaskTypeDerived(responses[1].userInput) =>
        /\ \A k \in 1..Len(responses) :
             k <= 4 => ~responses[k].isComplete /\ responses[k].asked = <<FieldOrder[k]>>
        /\ Len(responses) >= 5 =>
             /\ responses[5].isComplete
             /\ responses[5].currentQuestion = <<"specific">>
             /\ Cardinality(FinalizationsOf(responses[5].turn)) = 1
        /\ \A k \in 1..Len(responses) : k <= 4 => FinalizationsOf(responses[k].turn) = {}

\* the photographer conversation answered its four questions and was finalized
C11_Witness ==
    /\ Len(responses) >= 5
    /\ responses[1].userInput = "Looking for a photographer"
    /\ responses[5].isComplete
    /\ FinalizationsOf(responses[5].turn) # {}

\* function fn was applied to an utterance
AppliedTo(fn) == returned # <<>> /\ returned[1].fn = fn

\* keyword kw occurs in the text, the case of the text's letters ignored
OccursIgnoringCase(text, kw) ==
    \E i \in 1..(Len(text) - Len(kw) + 1) :
        \A k \in 1..Len(kw) : LowerChar(CharAt(text, i + k - 1)) = CharAt(kw, k)

\* the categories in their fixed order, each with its keywords
CategoryRules ==
    << [ category |-> "Trash Removal", keywords |-> { "trash", "garbage" } ],
       [ category |-> "Photography", keywords |-> { "photo", "photographer" } ],
       [ category |-> "Cleaning", keywords |-> { "clean", "cleaning" } ],
       [ category |-> "Tech Support", keywords |-> { "wifi", "internet", "tech" } ],
       [ category |-> "Graphic Design", keywords |-> { "design", "logo", "graphic" } ],
       [ category |-> "Moving Services", keywords |-> { "move", "moving" } ],
       [ category |-> "Repair Services", keywords |-> { "repair", "fix" } ] >>

\* the rules one of whose keywords occurs in the text
MatchingRules(rules, text) ==
    { r \in 1..Len(rules) : \E kw \in rules[r].keywords : OccursIgnoringCase(text, kw) }

\* the least of a non-empty set of numbers
Least(S) == CHOOSE r \in S : \A q \in S : r <= q

ExpectedTaskType(text) ==
    IF MatchingRules(CategoryRules, text) = {}
    THEN "General Service"
    ELSE CategoryRules[Least(MatchingRules(CategoryRules, text))].category

\* C12: extractTaskType returns the category of the first rule, in the fixed
\* order, one of whose keywords occurs in the utterance whatever the case of its
\* letters, and General Service when no keyword occurs; the result is determined
\* by the utterance.
C12_FirstCategoryRuleWins ==
    AppliedTo("extractTaskType") =>
        returned[1].value = ExpectedTaskType(argument[1].utterance)

\* an utterance with capital letters and keywords of two categories, resolved to
\* the earlier one
C12_Witness ==
    /\ AppliedTo("extractTaskType")
    /\ argument[1].utterance = "moving PHOTOS"
    /\ returned[1].value = "Photography"

\* the timeline labels in the order of their rules, each with its keywords
TimelineKeywordRules ==
    << [ label |-> "Today", keywords |-> { "today", "asap" } ],
       [ label |-> "Tomorrow", keywords |-> { "tomorrow" } ],
       [ label |-> "This week", keywords |-> { "this week" } ],
       [ label |-> "Next week", keywords |-> { "next week" } ],
       [ label |-> "This weekend", keywords |-> { "weekend" } ] >>

ExpectedTimeline(text) ==
    IF MatchingRules(TimelineKeywordRules, text) = {}
    THEN <<>>
    ELSE << TimelineKeywordRules[Least(MatchingRules(TimelineKeywordRules, text))].label >>

\* C13: extractTimeline returns the label of the first rule a keyword of which
\* occurs in the text, and null when none occurs; after a first utterance without
\* a timeline keyword the timeline is unset, and the dialogue completes only after
\* the timeline question was asked.
C13_TimelineNotDefaulted ==
    /\ AppliedTo("extractTimeline") =>
         returned[1].value = ExpectedTimeline(argument[1].utterance)
    /\ AppliedTo("processUserInput") /\ ExpectedTimeline(argument[1].utterance) = <<>> =>
         /\ returned[1].asks = <<>> =>
              /\ SlotOf(returned[1].value.updatedData, "timeline") = <<>>
              /\ ~returned[1].value.isComplete
         /\ returned[1].value.isComplete =>
              \E k \in 1..Len(returned[1].asks) : returned[1].asks[k] = <<"timeline">>

\* a dialogue opened without a timeline keyword completed after the timeline
\* question, and its answer was stored though it matches no rule
C13_Witness ==
    /\ AppliedTo("processUserInput")
    /\ argument[1].utterance = "Deep"
    /\ returned[1].value.isComplete
    /\ returned[1].asks = << <<"location">>, <<"budget">>, <<"timeline">> >>
    /\ SlotOf(returned[1].value.updatedData, "timeline") = <<"Brooklyn, NY">>

\* the task-specific keywords of the task types that have them
SpecificKeywords(taskType) ==
    CASE taskType = "Trash Removal" -> { "furniture", "household", "yard" }
      [] taskType = "Photography"   -> { "wedding", "portrait", "event" }
      [] taskType = "Cleaning"      -> { "deep", "regular", "move-out" }
      [] OTHER -> {}

\* the utterance holds a task-specific keyword of its task type
HasSpecificKeyword(text) ==
    \E kw \in SpecificKeywords(ExpectedTaskType(text)) : OccursIgnoringCase(text, kw)

\* C14: after a first utterance that holds a task-specific keyword of its task
\* type (Trash Removal, Photography, Cleaning), the task-specific question is not
\* asked, in the first turn or in a later one.
C14_SpecificKeywordSatisfies ==
    AppliedTo("processUserInput") /\ HasSpecificKeyword(argument[1].utterance) =>
        /\ returned[1].value.asked # <<"specific">>
        /\ \A k \in 1..Len(returned[1].asks) : returned[1].asks[k] # <<"specific">>

\* what a later turn stores for an answer to the question of field f
StoredFor(f, userInput) ==
    IF f = "budget" /\ extractBudget(userInput) # <<>>
    THEN extractBudget(userInput)
    ELSE <<userInput>>

\* turn r, made on the data `before`, wrote the answer to the slot of the current
\* field, the head of the fields missing before the turn, and to no other
AnswerStoredOnly(before, r) ==
    /\ r.currentQuestion =
         IF ExpectedMissing(before) = <<>> THEN <<>> ELSE << ExpectedMissing(before)[1] >>
    /\ \A f \in { "taskType", "details", "location", "budget", "timeline", "specific" } :
         SlotOf(r.updatedData, f) =
            IF r.currentQuestion = <<f>> THEN StoredFor(f, r.userInput) ELSE SlotOf(before, f)

\* C15: a later turn stores the raw utterance in the slot of the current field,
\* the head of the missing list before the turn (for budget the budget extractor's
\* match when there is one), and leaves task type, details and every other slot
\* as they were, whatever the utterance mentions.
C15_AnswerStoredVerbatim ==
    \A i \in 2..Len(responses) : AnswerStoredOnly(responses[i - 1].updatedData, responses[i])

\* the answer to the location question names a budget and a timeline too, and
\* the answer to the budget question is stored as the extractor's match
C15_Witness ==
    /\ Len(responses) >= 3
    /\ responses[2].currentQuestion = <<"location">>
    /\ extractBudget(responses[2].userInput) # <<>>
    /\ extractTimeline(responses[2].userInput) # <<>>
    /\ SlotOf(responses[2].updatedData, "budget") = <<>>
    /\ responses[3].currentQuestion = <<"budget">>
    /\ SlotOf(responses[3].updatedData, "budget") = <<"$50">>

\* the outbound calls of one turn
CallsOf(turn) == { i \in 1..Len(calls) : calls[i].turn = turn }

\* C16: a turn calls generateObject once if its processUserInput returned
\* isComplete, and makes no outbound call if it returned a question; every call
\* belongs to a turn that returned isComplete.
C16_FinalizesIffComplete ==
    /\ \A i \in 1..Len(responses) :
         IF responses[i].isComplete
         THEN Cardinality(FinalizationsOf(responses[i].turn)) = 1
         ELSE CallsOf(responses[i].turn) = {}
    /\ \A c \in 1..Len(calls) :
         \E i \in 1..Len(responses) :
             responses[i].turn = calls[c].turn /\ responses[i].isComplete

\* turns that asked made no call, the turn that completed made one, which settled
C16_Witness ==
    /\ Len(replies) = 1
    /\ \E i, j \in 1..Len(responses) :
         /\ ~responses[i].isComplete
         /\ responses[i].asked = <<"timeline">>
         /\ responses[j].isComplete
         /\ replies[1].turn = responses[j].turn

\* the step that typing text s into the input and sending it makes: handleSubmit()
\* of a render whose inputText is s, the input being enabled
TypedAndSent(s) ==
    /\ InputEnabled
    /\ ~IsBlank(s)
    /\ handleSubmitFrom(<<>>, s)

\* C17: while the input area is shown, a step that clicks the suggestion button
\* of text s is a step that typing s and sending it makes: the same messages,
\* slots, flags and running handler follow, whatever was typed before the click.
C17_SuggestionAsTyped ==
    [][ \A m \in 1..Len(messages) : \A j \in 1..Len(messages[m].suggestions) :
          ClickSuggestion(m, j) /\ ~isComplete => TypedAndSent(messages[m].suggestions[j]) ]_vars

\* a turn was started with a text that is offered as a suggestion and is also
\* typed, and processUserInput answered it
C17_Witness ==
    /\ ~isComplete
    /\ Len(responses) >= 2
    /\ Last(responses).userInput = "Brooklyn, NY"
    /\ \E m \in 1..Len(messages) : \E j \in 1..Len(messages[m].suggestions) :
         messages[m].suggestions[j] = "Brooklyn, NY"
    /\ "Brooklyn, NY" \in TypedTexts

\* C18: the request generateFinalRequest returns has the task type and the
\* location of the scoped data whenever these are set, whatever the collaborator's
\* object holds for them, and the skills, duration, suggestedPrice and description
\* of the object.
C18_LocalValuesPreferred ==
    AppliedTo("generateFinalRequest") =>
        /\ \A k \in { "taskType", "location" } :
             Prop(argument[1].data, k) # <<>> =>
                 Prop(returned[1].value, k) = Prop(argument[1].data, k)
        /\ \A k \in { "skills", "duration", "suggestedPrice", "description" } :
             Prop(returned[1].value, k) = Prop(argument[1].object, k)

\* the object echoes another task type and another location than those collected
C18_Witness ==
    /\ AppliedTo("generateFinalRequest")
    /\ Prop(argument[1].data, "taskType") = <<"Cleaning">>
    /\ Prop(argument[1].object, "taskType") = <<"Echoed task">>
    /\ Prop(argument[1].object, "location") = <<"Echoed place">>
    /\ Prop(returned[1].value, "location") = <<"Brooklyn, NY">>
    /\ Prop(returned[1].value, "suggestedPrice") = <<120>>

\* no handler runs, isProcessing is reset and no thinking indicator is shown
TurnEnded ==
    /\ handlers = <<>>
    /\ ~isProcessing
    /\ \A m \in 1..Len(messages) : messages[m].content # "thinking"

\* C19: every turn that was accepted ends: its handler returns, with isProcessing
\* reset and no thinking indicator left, also when a call of it rejects; and
\* after a rejection, unless the turn budget is spent, a suggestion button is
\* enabled again.
C19_EveryTurnEnds ==
    /\ (handlers # <<>>) ~> TurnEnded
    /\ [](handlers = <<>> => TurnEnded)
    /\ [][ RejectedStep =>
             /\ TurnEnded'
             /\ \E m \in 1..Len(messages') : \E j \in 1..Len(messages'[m].suggestions) :
                  SuggestionEnabled(m, j)' ]_vars

\* a call of a turn rejected, the turn ended, and a later turn was answered
C19_Witness ==
    /\ TurnEnded
    /\ \E k \in 1..Len(replies) : \E i \in 1..Len(responses) :
         replies[k].outcome = "rejected" /\ responses[i].turn > replies[k].turn

\* the questions of the fields asked of every task type
FixedQuestions ==
    [ location |-> "Where are you located?",
      budget |-> "What's your budget for this?",
      timeline |-> "When do you need this done?" ]

\* the task type, an optional value, has a registered task-specific question
HasRegisteredQuestion(taskType) == taskType \in { <<t>> : t \in TypesWithQuestion }

\* what the generators return for a field other than specific: the fixed
\* question, and four suggestions that do not depend on the task type
FixedFieldAnswer(questionType, taskType) ==
    /\ AppliedTo("getNextQuestion") => returned[1].value = FixedQuestions[questionType]
    /\ AppliedTo("getQuestionSuggestions") =>
         /\ Len(returned[1].value) = 4
         /\ returned[1].value = getQuestionSuggestions(questionType, <<>>)

\* what they return for specific: the registered question and its four options,
\* and no question (null from getTaskSpecificQuestion, which getNextQuestion
\* turns into the empty string) and no option when none is registered
SpecificFieldAnswer(taskType) ==
    /\ AppliedTo("getNextQuestion") =>
         returned[1].value =
            IF HasRegisteredQuestion(taskType) THEN getTaskSpecificQuestion(taskType)[1] ELSE ""
    /\ AppliedTo("getQuestionSuggestions") =>
         /\ returned[1].value = getTaskSpecificSuggestions(taskType)
         /\ Len(returned[1].value) = IF HasRegisteredQuestion(taskType) THEN 4 ELSE 0

\* C20: for location, budget and timeline the generators return the fixed
\* question and four suggestions; for specific they return the task type's
\* registered question and its options, and no question when the task type has
\* none registered; getTaskSpecificQuestion returns null exactly then.
C20_GeneratorsByFieldAndType ==
    /\ (returned # <<>> /\ "questionType" \in DOMAIN argument[1]) =>
         IF argument[1].questionType = "specific"
         THEN SpecificFieldAnswer(argument[1].taskType)
         ELSE FixedFieldAnswer(argument[1].questionType, argument[1].taskType)
    /\ AppliedTo("getTaskSpecificQuestion") =>
         /\ returned[1].value = <<>> <=> ~HasRegisteredQuestion(argument[1].taskType)
         /\ returned[1].value # <<>> => returned[1].value[1] # ""
    /\ AppliedTo("getTaskSpecificSuggestions") =>
         Len(returned[1].value) = IF HasRegisteredQuestion(argument[1].taskType) THEN 4 ELSE 0

\* the task-specific question of a task type that has none registered
C20_Witness ==
    /\ AppliedTo("getTaskSpecificQuestion")
    /\ argument[1].questionType = "specific"
    /\ argument[1].taskType = <<"Repair Services">>
    /\ returned[1].value = <<>>

\* C21: for an utterance that holds the word weekend and none of today, asap,
\* tomorrow and next week, extractTimeline returns This weekend.
C21_WeekendRecognized ==
    ( /\ AppliedTo("extractTimeline")
      /\ OccursIgnoringCase(argument[1].utterance, "weekend")
      /\ \A kw \in { "today", "asap", "tomorrow", "next week" } :
           ~OccursIgnoringCase(argument[1].utterance, kw) )
    => returned[1].value = <<"This weekend">>

\* the handlers whose thinking delay is still running
Thinking == { h \in 1..Len(handlers) : handlers[h].pc = "delay" }

\* C24: in every later turn the slot that receives the answer, the head of the
\* missing list recomputed from the captured slots, is the field whose question
\* the AI message just before the utterance asked.
C24_AnswersQuestionAsked ==
    /\ \A i \in 2..Len(responses) :
         /\ responses[i].branch = "subsequent"
         /\ responses[i].currentQuestion = responses[i - 1].asked
    /\ \A h \in Thinking :
         responses # <<>> =>
           /\ HeadOf(getMissingInfo(handlers[h].currentData)) = Last(responses).asked
           /\ Last(responses).asked # <<>> =>
                /\ Len(messages) >= 3
                /\ messages[Len(messages) - 2] = AiMessage(Last(responses))
                /\ AsksHeadOf(Last(responses), Last(responses).asked)

\* the task-specific question was asked and the next utterance went to its slot
C24_Witness ==
    \E i \in 2..Len(responses) :
        /\ responses[i - 1].asked = <<"specific">>
        /\ responses[i].currentQuestion = <<"specific">>
        /\ SlotOf(responses[i].updatedData, "specific") = <<responses[i].userInput>>

\* the fields unset in `before` and set in `after`
NewlySet(before, after) ==
    { k \in 1..Len(FieldOrder) :
        SlotOf(before, FieldOrder[k]) = <<>> /\ SlotOf(after, FieldOrder[k]) # <<>> }

\* the turn from `before` to `after` answered one question
AnswersOne(before, after) ==
    /\ Cardinality(NewlySet(before, after)) = 1
    /\ \A k \in 1..Len(FieldOrder) :
         SlotOf(before, FieldOrder[k]) # <<>> =>
            SlotOf(after, FieldOrder[k]) = SlotOf(before, FieldOrder[k])
    /\ Len(getMissingInfo(after)) = Len(getMissingInfo(before)) - 1

\* C25: every turn that answers a question sets exactly one slot that was unset
\* and shortens the missing list by exactly one, so the dialogue is complete at
\* the latest four user turns after the first utterance.
C25_CompleteWithinFourTurns ==
    \A i \in 1..Len(responses) :
        /\ i >= 2 /\ ~responses[i - 1].isComplete =>
              AnswersOne(responses[i - 1].updatedData, responses[i].updatedData)
        /\ i <= 5 => Len(getMissingInfo(responses[i].updatedData)) <= 5 - i
        /\ ~responses[i].isComplete => i <= 4
        /\ i >= 2 /\ responses[i - 1].isComplete => responses[i].isComplete

\* all four fields were missing after the first utterance, and the fourth further
\* turn completed the dialogue
C25_Witness ==
    /\ Len(responses) = 5
    /\ Len(getMissingInfo(responses[1].updatedData)) = 4
    /\ ~responses[4].isComplete
    /\ responses[5].isComplete

\* the utterances submitted so far, in submission order
TextOfTurn(n) ==
    IF n <= Len(responses)
    THEN responses[n].userInput
    ELSE handlers[CHOOSE h \in 1..Len(handlers) : handlers[h].n = n].messageText

Submitted == [ n \in 1..TurnsStarted |-> TextOfTurn(n) ]

\* the texts of the user messages shown, in list order
UserTexts == ContentOf(SelectSeq(messages, LAMBDA m : m.type = "user"))

\* C26: every utterance submitted is in the message list as a user message, in
\* submission order, whenever the welcome timer fires.
C26_UtterancesKept == UserTexts = Submitted

\* C23: in the variant that keeps currentQuestion, whenever processUserInput
\* declares the dialogue complete the scoping data it returns has location,
\* budget and timeline set.
C23_CompleteHasAllSlots ==
    AppliedToCQ /\ returned[1].value.isComplete =>
        \A k \in { "location", "budget", "timeline" } :
            Truthy(returned[1].value.updatedData, k)

\* the views that render a component with the current request
NeedsRequest == { "matches", "booking" }

\* C30: whenever the App shows 'matches' or 'booking' the current request is not
\* null: 'matches' is entered only by onRequestComplete with a request or back
\* from 'booking', 'booking' only from 'matches', and the current request is
\* never cleared.
C30_RequestWhereNeeded ==
    /\ [](currentView \in NeedsRequest => currentRequest # <<>>)
    /\ [][ /\ currentRequest # <<>> => currentRequest' # <<>>
           /\ currentView' = "booking" /\ currentView # "booking" =>
                 currentView = "matches"
           /\ currentView' = "matches" /\ currentView # "matches" =>
                 \/ currentView = "booking"
                 \/ /\ Len(completions') = Len(completions) + 1
                    /\ currentRequest' = << Last(completions').request >> ]_vars

\* a confirmed request was handed to the App, and the booking view was reached
\* from the matches
C30_Witness ==
    /\ currentView = "booking"
    /\ Len(completions) = 1
    /\ Len(created) = 1

\* C22: in the RequestFlow that asks the text generator, no turn is started
\* while a call of generateAIResponse is outstanding, so two calls never overlap.
C22_TurnsNeverOverlap ==
    /\ Len(generating) <= 1
    /\ generating # <<>> => assistant.isThinking

\* no two of the entries stem from the same summary
OnePerSummary(entries) ==
    \A i, j \in 1..Len(entries) : entries[i].summary = entries[j].summary => i = j

\* C29: confirming a summary creates at most one request record and calls
\* onRequestComplete at most once, and onRequestComplete is called only with
\* the id of a record that was created.
C29_OneRecordPerConfirmation ==
    /\ OnePerSummary(created)
    /\ OnePerSummary(completions)
    /\ \A i \in 1..Len(completions) :
         \E j \in 1..Len(created) : created[j].record.id = completions[i].request.id

\* C27: for one requestId, whatever the user does in ProviderMatches and
\* BookingFlow and whichever backend call fails, handleBooking creates at most
\* one booking record.
C27_OneBookingPerRequest ==
    Cardinality({ i \in 1..Len(bookings) : bookings[i].requestId = requestIdProp }) <= 1

NonIncreasing(list) ==
    \A i \in 1..(Len(list) - 1) : list[i].matchScore >= list[i + 1].matchScore

WithoutScore(provider) == [ k \in (DOMAIN provider) \ { "matchScore" } |-> provider[k] ]

\* C28: once findMatchingProviders has succeeded the list shown has at most 5
\* entries, is ordered by non-increasing matchScore and holds generated providers
\* only, so that a match that names no generated provider is dropped; once it has
\* failed the list is empty; in both cases loading is false.
C28_RankedOrEmpty ==
    /\ finding.pc = "done" =>
        /\ ~providerMatches.loading
        /\ Len(providerMatches.providers) <= 5
        /\ NonIncreasing(providerMatches.providers)
        /\ \A i \in 1..Len(providerMatches.providers) :
             \E j \in 1..Len(finding.mockProviders) :
                WithoutScore(providerMatches.providers[i]) = finding.mockProviders[j]
    /\ finding.pc = "failed" =>
        /\ ~providerMatches.loading
        /\ providerMatches.providers = <<>>

\* the call has succeeded with more matches than are shown, of different scores
C28_Witness ==
    /\ finding.pc = "done"
    /\ Len(providerMatches.providers) = 5
    /\ providerMatches.providers[1].matchScore > providerMatches.providers[5].matchScore

==========================================================================
